---------------------------- MODULE Spec2Model ----------------------------
(***************************************************************************)
(* A model of Diluculum: the LuaValue dynamic value and its ordering       *)
(* (Sources/LuaValue.cpp), the decoding of Lua stack slots into LuaValues  *)
(* (LuaState::toLuaValue) and the wrappers that export C++ functions,      *)
(* classes and objects to Lua (LuaWrappers.hpp).                           *)
(***************************************************************************)
EXTENDS Integers, Sequences, FiniteSets, TLC

VARIABLES
    lhs, rhs, cmp,         \* two LuaValues and the result of comparing them
    val, res, written,     \* a LuaValue, the result of the last operation on
                           \* it, and the keys assigned through operator[]
    vm, orig, dec,         \* a Lua state, the LuaValue pushed onto its stack
                           \* and the result of decoding a slot of the stack
    idx, twin,             \* the index given to toLuaValue, and what it gives
                           \* for the index of the other sign of that slot
    retCode, thrown,       \* the status a Lua call returned on the state vm
                           \* and what throwOnLuaError did with it
    ls,                    \* the Lua state the wrappers are registered in
    objs,                  \* the C++ objects of the exported class
    notified,              \* per userdata: the calls of the destructor wrapper
    call,                  \* the last call of a wrapper and how it ended
    crashed,               \* the process has crashed
    Class_Table,           \* the static LuaValueMap of the exported class
    methods                \* the names given to DILUCULUM_CLASS_METHOD so far

orderVars == <<lhs, rhs, cmp>>
valueVars == <<val, res, written>>
marshalVars == <<vm, orig, dec, idx, twin, retCode, thrown>>
bindVars == <<ls, objs, notified, call, crashed, Class_Table, methods>>
vars == <<lhs, rhs, cmp, val, res, written, vm, orig, dec, idx, twin, retCode, thrown,
          ls, objs, notified, call, crashed, Class_Table, methods>>

---------------------------------------------------------------------------
(* Bounds of the model. *)

MaxNum == 1         \* numbers are 0 .. MaxNum
MaxStrLen == 1      \* strings and userdata blocks hold at most MaxStrLen bytes
MaxEntries == 2     \* entries of a table built entry by entry
MaxDepth == 2       \* times a table is wrapped into another table
MaxHandles == 2     \* userdata blocks holding a CppObject
MaxNotify == 2      \* calls of the destructor wrapper on one userdata
MaxArgs == 2        \* arguments of a call from Lua

\* The bytes strings are made of: NUL and the letter 'a'.
Bytes == {0, 97}

---------------------------------------------------------------------------
(* LuaValue: a boost::variant over NilType, bool, lua_Number, std::string, *)
(* LuaValueMap, and (the "else" branches of type() and typeName()) a value *)
(* that is none of these: a LuaUserData.  The field "type" is the active   *)
(* variant; b, n, s, m hold the bool, the number, the bytes of the string  *)
(* or of the userdata block, and the entries of the LuaValueMap.           *)

Nil == [type |-> "nil", b |-> FALSE, n |-> 0, s |-> <<>>, m |-> <<>>]
Bool(x) == [type |-> "boolean", b |-> x, n |-> 0, s |-> <<>>, m |-> <<>>]
Num(x) == [type |-> "number", b |-> FALSE, n |-> x, s |-> <<>>, m |-> <<>>]
Str(x) == [type |-> "string", b |-> FALSE, n |-> 0, s |-> x, m |-> <<>>]
Tab(x) == [type |-> "table", b |-> FALSE, n |-> 0, s |-> <<>>, m |-> x]
UserData(x) == [type |-> "userdata", b |-> FALSE, n |-> 0, s |-> x, m |-> <<>>]
\* A lua_CFunction held by a LuaValue, f the function it points to.
Fun(f) == [type |-> "function", b |-> FALSE, n |-> f, s |-> <<>>, m |-> <<>>]

\* LuaValue::typeName
typeName(v) ==
    IF v.type = "nil" THEN "nil"
    ELSE IF v.type = "boolean" THEN "boolean"
    ELSE IF v.type = "number" THEN "number"
    ELSE IF v.type = "string" THEN "string"
    ELSE IF v.type = "table" THEN "table"
    ELSE ""

\* The characters of the names typeName returns, as std::string compares them.
NameBytes(name) ==
    CASE name = "nil" -> <<110, 105, 108>>
      [] name = "boolean" -> <<98, 111, 111, 108, 101, 97, 110>>
      [] name = "number" -> <<110, 117, 109, 98, 101, 114>>
      [] name = "string" -> <<115, 116, 114, 105, 110, 103>>
      [] name = "table" -> <<116, 97, 98, 108, 101>>
      [] OTHER -> <<>>

\* std::string's operator<: lexicographic, a proper prefix is less.
StringLess(s, t) ==
    \E i \in 1..Len(t) :
        /\ i - 1 <= Len(s)
        /\ \A j \in 1..(i - 1) : s[j] = t[j]
        /\ \/ i = Len(s) + 1
           \/ i <= Len(s) /\ s[i] < t[i]

\* bool's operator<: false < true.
BoolLess(x, y) == ~x /\ y

RECURSIVE LessThan(_, _), GreaterThan(_, _)
RECURSIVE LessEntries(_, _, _), GreaterEntries(_, _, _)

\* The while loop of LuaValue::operator< over two maps of the same size,
\* from position i on.
LessEntries(l, r, i) ==
    IF i > Len(l) THEN FALSE
    ELSE IF LessThan(l[i].k, r[i].k) THEN TRUE
    ELSE IF GreaterThan(l[i].k, r[i].k) THEN FALSE
    ELSE IF LessThan(l[i].v, r[i].v) THEN TRUE
    ELSE IF GreaterThan(l[i].v, r[i].v) THEN FALSE
    ELSE LessEntries(l, r, i + 1)

\* The loop of operator> without the exit taken when the key is less.
GreaterEntriesNoKeyExit(l, r, i) ==
    IF i > Len(l) THEN FALSE
    ELSE IF GreaterThan(l[i].k, r[i].k) THEN TRUE
    ELSE IF GreaterThan(l[i].v, r[i].v) THEN TRUE
    ELSE IF LessThan(l[i].v, r[i].v) THEN FALSE
    ELSE GreaterEntries(l, r, i + 1)

\* The while loop of LuaValue::operator>.
GreaterEntries(l, r, i) ==
    IF i > Len(l) THEN FALSE
    ELSE IF GreaterThan(l[i].k, r[i].k) THEN TRUE
    ELSE IF LessThan(l[i].k, r[i].k) THEN FALSE
    ELSE IF GreaterThan(l[i].v, r[i].v) THEN TRUE
    ELSE IF LessThan(l[i].v, r[i].v) THEN FALSE
    ELSE GreaterEntries(l, r, i + 1)

\* LuaValue::operator<
LessThan(x, y) ==
    LET lhsTypeName == typeName(x)
        rhsTypeName == typeName(y)
    IN  IF StringLess(NameBytes(lhsTypeName), NameBytes(rhsTypeName)) THEN TRUE
        ELSE IF StringLess(NameBytes(rhsTypeName), NameBytes(lhsTypeName)) THEN FALSE
        ELSE IF lhsTypeName = "nil" THEN FALSE
        ELSE IF lhsTypeName = "boolean" THEN BoolLess(x.b, y.b)
        ELSE IF lhsTypeName = "number" THEN x.n < y.n
        ELSE IF lhsTypeName = "string" THEN StringLess(x.s, y.s)
        ELSE IF lhsTypeName = "table"
             THEN IF Len(x.m) < Len(y.m) THEN TRUE
                  ELSE IF Len(x.m) > Len(y.m) THEN FALSE
                  ELSE LessEntries(x.m, y.m, 1)
        ELSE FALSE

\* operator> with the type names compared the way operator< compares them.
GreaterThanTypeNameSlip(x, y) ==
    LET lhsTypeName == typeName(x)
        rhsTypeName == typeName(y)
    IN  IF StringLess(NameBytes(lhsTypeName), NameBytes(rhsTypeName)) THEN TRUE
        ELSE IF StringLess(NameBytes(rhsTypeName), NameBytes(lhsTypeName)) THEN FALSE
        ELSE IF lhsTypeName = "nil" THEN FALSE
        ELSE IF lhsTypeName = "boolean" THEN BoolLess(y.b, x.b)
        ELSE IF lhsTypeName = "number" THEN x.n > y.n
        ELSE IF lhsTypeName = "string" THEN StringLess(y.s, x.s)
        ELSE IF lhsTypeName = "table"
             THEN IF Len(x.m) > Len(y.m) THEN TRUE
                  ELSE IF Len(x.m) < Len(y.m) THEN FALSE
                  ELSE GreaterEntries(x.m, y.m, 1)
        ELSE FALSE

\* LuaValue::operator>
GreaterThan(x, y) ==
    LET lhsTypeName == typeName(x)
        rhsTypeName == typeName(y)
    IN  IF StringLess(NameBytes(rhsTypeName), NameBytes(lhsTypeName)) THEN TRUE
        ELSE IF StringLess(NameBytes(lhsTypeName), NameBytes(rhsTypeName)) THEN FALSE
        ELSE IF lhsTypeName = "nil" THEN FALSE
        ELSE IF lhsTypeName = "boolean" THEN BoolLess(y.b, x.b)
        ELSE IF lhsTypeName = "number" THEN x.n > y.n
        ELSE IF lhsTypeName = "string" THEN StringLess(y.s, x.s)
        ELSE IF lhsTypeName = "table"
             THEN IF Len(x.m) > Len(y.m) THEN TRUE
                  ELSE IF Len(x.m) < Len(y.m) THEN FALSE
                  ELSE GreaterEntries(x.m, y.m, 1)
        ELSE FALSE

---------------------------------------------------------------------------
(* LuaValueMap: std::map<LuaValue, LuaValue>, kept as the sequence of its  *)
(* entries [k, v] in ascending key order.  Two keys are the same key to    *)
(* the map when neither is less than the other.                            *)

RECURSIVE LowerBoundFrom(_, _, _)
LowerBoundFrom(m, key, i) ==
    IF i > Len(m) THEN i
    ELSE IF ~LessThan(m[i].k, key) THEN i
    ELSE LowerBoundFrom(m, key, i + 1)

\* std::map::lower_bound: the first position whose key is not less than key.
MapLowerBound(m, key) == LowerBoundFrom(m, key, 1)

\* std::map::find: the position of key, 0 for end().
MapFind(m, key) ==
    LET i == MapLowerBound(m, key)
    IN  IF i <= Len(m) /\ ~LessThan(key, m[i].k) THEN i ELSE 0

\* std::map::operator[]: the position of key, which is inserted with a
\* default-constructed LuaValue (Nil) when the map does not hold it.
MapSubscript(m, key) ==
    LET i == MapLowerBound(m, key)
    IN  IF i <= Len(m) /\ ~LessThan(key, m[i].k)
        THEN [m |-> m, i |-> i]
        ELSE [m |-> SubSeq(m, 1, i - 1) \o <<[k |-> key, v |-> Nil]>>
                    \o SubSeq(m, i, Len(m)),
              i |-> i]

\* table[key] = value on a LuaValueMap.
MapAssign(m, key, value) ==
    LET at == MapSubscript(m, key)
    IN  [at.m EXCEPT ![at.i].v = value]

---------------------------------------------------------------------------
(* The values the model draws its inputs from. *)

Strings == UNION {[1..k -> Bytes] : k \in 0..MaxStrLen}

Scalars ==
    {Nil} \cup {Bool(x) : x \in BOOLEAN} \cup {Num(x) : x \in 0..MaxNum}
    \cup {Str(x) : x \in Strings}

Payloads == {UserData(x) : x \in Strings}

KeyAtoms == {Num(x) : x \in 0..MaxNum} \cup {Str(<<97>>)}
ValAtoms == {Nil, Num(0)}

RECURSIVE BuildMap(_, _)
BuildMap(es, i) ==
    IF i = 0 THEN <<>> ELSE MapAssign(BuildMap(es, i - 1), es[i][1], es[i][2])

\* Tables of at most MaxEntries entries, built by assigning entry after entry.
FlatTables ==
    {Tab(BuildMap(es, Len(es))) :
        es \in UNION {[1..k -> KeyAtoms \X ValAtoms] : k \in 0..MaxEntries}}

WrapAsValue(x) == Tab(MapAssign(<<>>, Num(0), x))
WrapAsKey(x) == Tab(MapAssign(<<>>, x, Num(0)))

NestSeeds == {Tab(<<>>), WrapAsValue(Nil), WrapAsValue(Num(0))}

RECURSIVE Nested(_)
Nested(d) ==
    IF d = 0 THEN NestSeeds
    ELSE {WrapAsValue(x) : x \in Nested(d - 1)} \cup {WrapAsKey(x) : x \in Nested(d - 1)}

NestedTables == UNION {Nested(d) : d \in 0..MaxDepth}

Tables == FlatTables \cup NestedTables

Values == Scalars \cup Payloads \cup Tables

\* Tables of one entry that hold a userdata value as the key or as the value.
PayloadTables ==
    {Tab(MapAssign(<<>>, p, Num(n))) : p \in Payloads, n \in 0..MaxNum}
    \cup {WrapAsValue(p) : p \in Payloads}

---------------------------------------------------------------------------
(* The accessors of a LuaValue and operator[].  A call returns a result:   *)
(* status "ok" and the value returned, or the class of the exception       *)
(* thrown with its fields.                                                 *)

NoResult ==
    [op |-> "none", status |-> "none", key |-> Nil, value |-> Nil,
     expected |-> "", found |-> "", badKey |-> Nil, before |-> Nil]

Returned(op, key, before, value) ==
    [op |-> op, status |-> "ok", key |-> key, value |-> value,
     expected |-> "", found |-> "", badKey |-> Nil, before |-> before]

\* throw TypeMismatchError (expectedType, foundType)
TypeMismatch(op, key, before, expectedType, foundType) ==
    [op |-> op, status |-> "TypeMismatchError", key |-> key, value |-> Nil,
     expected |-> expectedType, found |-> foundType, badKey |-> Nil,
     before |-> before]

\* throw NoSuchKeyError (badKey)
NoSuchKey(op, key, before, badKey) ==
    [op |-> op, status |-> "NoSuchKeyError", key |-> key, value |-> Nil,
     expected |-> "", found |-> "", badKey |-> badKey, before |-> before]

\* LuaValue::asNumber
asNumber(v) ==
    IF v.type = "number" THEN Returned("asNumber", Nil, v, Num(v.n))
    ELSE TypeMismatch("asNumber", Nil, v, "number", typeName(v))

\* LuaValue::asString
asString(v) ==
    IF v.type = "string" THEN Returned("asString", Nil, v, Str(v.s))
    ELSE TypeMismatch("asString", Nil, v, "string", typeName(v))

\* LuaValue::asBoolean
asBoolean(v) ==
    IF v.type = "boolean" THEN Returned("asBoolean", Nil, v, Bool(v.b))
    ELSE TypeMismatch("asBoolean", Nil, v, "boolean", typeName(v))

\* asTable that names the wrong type in its exception.
asTableWrongName(v) ==
    IF v.type = "table" THEN Returned("asTable", Nil, v, Tab(v.m))
    ELSE TypeMismatch("asTable", Nil, v, "string", typeName(v))

\* LuaValue::asTable
asTable(v) ==
    IF v.type = "table" THEN Returned("asTable", Nil, v, Tab(v.m))
    ELSE TypeMismatch("asTable", Nil, v, "table", typeName(v))

\* LuaValue::operator[] (const LuaValue& key), the non-const one: the value
\* after the call, the position of the entry the returned reference refers
\* to, and the result.
Subscript(v, key) ==
    IF v.type # "table"
    THEN [v |-> v, i |-> 0, r |-> TypeMismatch("subscript", key, v, "table", typeName(v))]
    ELSE LET at == MapSubscript(v.m, key)
         IN  [v |-> Tab(at.m), i |-> at.i,
              r |-> Returned("subscript", key, v, at.m[at.i].v)]

\* LuaValue::operator[] (const LuaValue& key) const
SubscriptConst(v, key) ==
    IF v.type # "table"
    THEN TypeMismatch("read", key, v, "table", typeName(v))
    ELSE LET it == MapFind(v.m, key)
         IN  IF it = 0 THEN NoSuchKey("read", key, v, key)
             ELSE Returned("read", key, v, v.m[it].v)

---------------------------------------------------------------------------
(* The Lua state.  A slot of the stack holds a Lua value: nil, a boolean,  *)
(* a number, a string (its bytes), or a reference to a table, a function,  *)
(* a userdata block or a thread.  tables[ref] is the sequence of the       *)
(* entries of a table in the order lua_next traverses them; udata[ref] is  *)
(* a userdata block.                                                       *)

LNil == [t |-> "nil", b |-> FALSE, n |-> 0, s |-> <<>>, ref |-> 0]
LBool(x) == [t |-> "boolean", b |-> x, n |-> 0, s |-> <<>>, ref |-> 0]
LNum(x) == [t |-> "number", b |-> FALSE, n |-> x, s |-> <<>>, ref |-> 0]
LStr(x) == [t |-> "string", b |-> FALSE, n |-> 0, s |-> x, ref |-> 0]
LTab(r) == [t |-> "table", b |-> FALSE, n |-> 0, s |-> <<>>, ref |-> r]
LFun(r) == [t |-> "function", b |-> FALSE, n |-> 0, s |-> <<>>, ref |-> r]
LUd(r) == [t |-> "userdata", b |-> FALSE, n |-> 0, s |-> <<>>, ref |-> r]
LThread(r) == [t |-> "thread", b |-> FALSE, n |-> 0, s |-> <<>>, ref |-> r]

EmptyState == [stack |-> <<>>, tables |-> <<>>, udata |-> <<>>, meta |-> <<>>]

lua_gettop(L) == Len(L.stack)

\* The stack position a valid index refers to.
AbsIndex(L, index) == IF index < 0 THEN Len(L.stack) + index + 1 ELSE index

\* lua_type: "none" for an index that refers to no slot.
lua_type(L, index) ==
    LET i == AbsIndex(L, index)
    IN  IF i \in 1..Len(L.stack) THEN L.stack[i].t ELSE "none"

Slot(L, index) == L.stack[AbsIndex(L, index)]

lua_push(L, x) == [L EXCEPT !.stack = Append(@, x)]
lua_pushnil(L) == lua_push(L, LNil)
lua_pop(L, n) == [L EXCEPT !.stack = SubSeq(@, 1, Len(@) - n)]

\* lua_newtable: a fresh empty table is pushed.
lua_newtable(L) ==
    [L EXCEPT !.tables = Append(@, <<>>), !.stack = Append(@, LTab(Len(L.tables) + 1))]

\* lua_newuserdata: a fresh block, here with its content, is pushed; it has
\* no metatable (0).
lua_newuserdata(L, block) ==
    [L EXCEPT !.udata = Append(@, block), !.meta = Append(@, 0),
              !.stack = Append(@, LUd(Len(L.udata) + 1))]

\* The position of key in a table, 0 when the table has no such key.  Lua
\* compares keys raw: tables, functions and userdata by reference.
RECURSIVE RawFind(_, _, _)
RawFind(t, key, i) ==
    IF i > Len(t) THEN 0 ELSE IF t[i].k = key THEN i ELSE RawFind(t, key, i + 1)

\* A lua_next that leaves the last key on the stack when no entry follows.
lua_nextKeepsKey(L, index) ==
    LET t == L.tables[Slot(L, index).ref]
        key == L.stack[Len(L.stack)]
        at == IF key.t = "nil" THEN 1 ELSE RawFind(t, key, 1) + 1
        popped == lua_pop(L, 1)
    IN  IF at <= Len(t)
        THEN [L |-> lua_push(lua_push(popped, t[at].k), t[at].v), r |-> 1]
        ELSE [L |-> L, r |-> 0]

\* lua_next (L, index): pops a key and pushes the entry that follows it in the
\* table at index (the first entry after nil); r = 0 and nothing pushed when
\* no entry follows.
lua_next(L, index) ==
    LET t == L.tables[Slot(L, index).ref]
        key == L.stack[Len(L.stack)]
        at == IF key.t = "nil" THEN 1 ELSE RawFind(t, key, 1) + 1
        popped == lua_pop(L, 1)
    IN  IF at <= Len(t)
        THEN [L |-> lua_push(lua_push(popped, t[at].k), t[at].v), r |-> 1]
        ELSE [L |-> popped, r |-> 0]

\* A table with the entry of key set to value: a nil value removes the entry.
RawSet(t, key, value) ==
    LET at == RawFind(t, key, 1)
    IN  IF value.t = "nil"
        THEN IF at = 0 THEN t ELSE SubSeq(t, 1, at - 1) \o SubSeq(t, at + 1, Len(t))
        ELSE IF at = 0 THEN Append(t, [k |-> key, v |-> value])
        ELSE [t EXCEPT ![at].v = value]

\* lua_settable (L, index): t[k] = v for the table t at index, v the top of the
\* stack and k the slot below it; both are popped.  Lua raises an error for
\* a nil key.
lua_settable(L, index) ==
    LET value == L.stack[Len(L.stack)]
        key == L.stack[Len(L.stack) - 1]
        r == Slot(L, index).ref
    IN  IF key.t = "nil"
        THEN [L |-> L, err |-> "table index is nil"]
        ELSE [L |-> lua_pop([L EXCEPT !.tables[r] = RawSet(@, key, value)], 2),
              err |-> ""]

\* The table of globals.
GlobalsRef == 1

\* lua_getglobal (L, name): the global of that name is pushed, nil for none.
lua_getglobal(L, name) ==
    LET at == RawFind(L.tables[GlobalsRef], LStr(name), 1)
    IN  lua_push(L, IF at = 0 THEN LNil ELSE L.tables[GlobalsRef][at].v)

\* lua_gettable (L, index): the key on top of the stack is replaced by the
\* value the table at index holds for it, nil for none.
lua_gettable(L, index) ==
    LET t == L.tables[Slot(L, index).ref]
        at == RawFind(t, L.stack[Len(L.stack)], 1)
    IN  lua_push(lua_pop(L, 1), IF at = 0 THEN LNil ELSE t[at].v)

\* lua_remove (L, -2): the slot below the top is removed.
lua_remove2(L) ==
    [L EXCEPT !.stack = Append(SubSeq(@, 1, Len(@) - 2), @[Len(@)])]

\* lua_setmetatable (L, -2): the table on top of the stack is popped and
\* becomes the metatable of the userdata below it; nil on top removes it.
lua_setmetatable(L) ==
    LET top == L.stack[Len(L.stack)]
        ud == L.stack[Len(L.stack) - 1]
    IN  lua_pop([L EXCEPT !.meta[ud.ref] = IF top.t = "table" THEN top.ref ELSE 0], 1)

\* The std::string made from the const char* lua_tostring returns: the
\* bytes up to the first NUL.
RECURSIVE CStringLen(_, _)
CStringLen(s, i) ==
    IF i > Len(s) \/ s[i] = 0 THEN i - 1 ELSE CStringLen(s, i + 1)

CString(s) == SubSeq(s, 1, CStringLen(s, 1))

---------------------------------------------------------------------------
(* LuaState::toLuaValue (index): L is the Lua state after the call, v the  *)
(* LuaValue returned, err the exception thrown ("" for none).              *)

NoDecode == [L |-> EmptyState, v |-> Nil, err |-> "", what |-> ""]

Decoded(L, v) == [L |-> L, v |-> v, err |-> "", what |-> ""]

\* A default branch that gives nil for a type it does not know.
UnsupportedTypeAsNil(L) == [L |-> L, v |-> Nil, err |-> "", what |-> ""]

UnsupportedType(L) ==
    [L |-> L, v |-> Nil, err |-> "LuaTypeError",
     what |-> "Unsupported type found in call to 'LuaState::toLuaValue()'"]

RECURSIVE Decode(_, _, _), DecodeEntries(_, _, _, _)

\* The loop "while (lua_next (state_, index) != 0)" with its body.
DecodeEntries(L, index, ret, withUserData) ==
    LET nx == lua_next(L, index)
    IN  IF nx.r = 0 THEN Decoded(nx.L, Tab(ret))
        ELSE LET key == Decode(nx.L, -2, withUserData)
             IN  IF key.err # "" THEN key
                 ELSE LET value == Decode(key.L, -1, withUserData)
                      IN  IF value.err # "" THEN value
                          ELSE DecodeEntries(lua_pop(value.L, 1), index,
                                             MapAssign(ret, key.v, value.v),
                                             withUserData)

\* The switch of toLuaValue.  withUserData is FALSE for LuaState::toLuaValue;
\* the ToLuaValue the wrappers call also reads a userdata block.
Decode(L, index, withUserData) ==
    LET type == lua_type(L, index)
    IN  IF type = "nil" THEN Decoded(L, Nil)
        ELSE IF type = "number" THEN Decoded(L, Num(Slot(L, index).n))
        ELSE IF type = "boolean" THEN Decoded(L, Bool(Slot(L, index).b))
        ELSE IF type = "string" THEN Decoded(L, Str(CString(Slot(L, index).s)))
        ELSE IF type = "table"
             THEN DecodeEntries(lua_pushnil(L),
                                IF index < 0 THEN lua_gettop(L) + index + 1 ELSE index,
                                <<>>, withUserData)
        ELSE IF type = "userdata" /\ withUserData
             THEN Decoded(L, UserData(L.udata[Slot(L, index).ref]))
        ELSE UnsupportedType(L)

\* LuaState::toLuaValue
toLuaValue(L, index) == Decode(L, index, FALSE)

---------------------------------------------------------------------------
(* LuaState::throwOnLuaError (retCode).  A status is named as lua.h names  *)
(* it, "0" for success.  The exception thrown is its class, kind, and its  *)
(* message: the bytes taken from the stack, or a fixed text.               *)

\* lua_isstring: a string, or a number, which converts to one.
lua_isstring(L, index) == lua_type(L, index) \in {"string", "number"}

\* The decimal digits of a natural number, as lua_tostring writes it.
RECURSIVE Decimal(_)
Decimal(n) ==
    IF n < 10 THEN <<48 + n>> ELSE Append(Decimal(n \div 10), 48 + (n % 10))

\* lua_tostring as a const char*: the bytes of the string, or of the number
\* converted, up to the first NUL.
lua_tostring(L, index) ==
    IF lua_type(L, index) = "number" THEN Decimal(Slot(L, index).n)
    ELSE CString(Slot(L, index).s)

NoInformation == "Sorry, there is no additional information about this error."

UnknownReturnCode == "Unknown Lua return code passed to 'LuaState::throwOnLuaError'."

\* The class the switch on retCode throws, "LuaError" in its default branch.
ErrorClass(code) ==
    IF code = "LUA_ERRRUN" THEN "LuaRunTimeError"
    ELSE IF code = "LUA_ERRFILE" THEN "LuaFileError"
    ELSE IF code = "LUA_ERRSYNTAX" THEN "LuaSyntaxError"
    ELSE IF code = "LUA_ERRMEM" THEN "LuaMemoryError"
    ELSE IF code = "LUA_ERRERR" THEN "LuaErrorError"
    ELSE "LuaError"

\* "std::string errorMessage" and the stack once it is set.
errorMessage(L) ==
    IF lua_isstring(L, -1)
    THEN [L |-> lua_pop(L, 1), fixed |-> "", bytes |-> lua_tostring(L, -1)]
    ELSE [L |-> L, fixed |-> NoInformation, bytes |-> <<>>]

\* The switch: the exception of the class of code with the message msg.
ThrowFor(code, msg) ==
    IF ErrorClass(code) = "LuaError"
    THEN [L |-> msg.L, kind |-> "LuaError", fixed |-> UnknownReturnCode, bytes |-> <<>>]
    ELSE [L |-> msg.L, kind |-> ErrorClass(code), fixed |-> msg.fixed,
          bytes |-> CString(msg.bytes)]

throwOnLuaError(L, code) ==
    IF code # "0" THEN ThrowFor(code, errorMessage(L))
    ELSE [L |-> L, kind |-> "", fixed |-> "", bytes |-> <<>>]

---------------------------------------------------------------------------
(* PushLuaValue (state, value): one slot is pushed.  A table is pushed as  *)
(* a fresh Lua table filled entry by entry, key and value pushed the same  *)
(* way.  err is the error Lua raises, "" for none.                         *)

RECURSIVE PushLuaValue(_, _), PushEntries(_, _, _)

PushEntries(L, m, i) ==
    IF i > Len(m) THEN [L |-> L, err |-> ""]
    ELSE LET key == PushLuaValue(L, m[i].k)
         IN  IF key.err # "" THEN key
             ELSE LET value == PushLuaValue(key.L, m[i].v)
                  IN  IF value.err # "" THEN value
                      ELSE LET set == lua_settable(value.L, -3)
                           IN  IF set.err # "" THEN set
                               ELSE PushEntries(set.L, m, i + 1)

PushLuaValue(L, v) ==
    IF v.type = "nil" THEN [L |-> lua_pushnil(L), err |-> ""]
    ELSE IF v.type = "boolean" THEN [L |-> lua_push(L, LBool(v.b)), err |-> ""]
    ELSE IF v.type = "number" THEN [L |-> lua_push(L, LNum(v.n)), err |-> ""]
    ELSE IF v.type = "string" THEN [L |-> lua_push(L, LStr(v.s)), err |-> ""]
    ELSE IF v.type = "table" THEN PushEntries(lua_newtable(L), v.m, 1)
    ELSE IF v.type = "function" THEN [L |-> lua_push(L, LFun(v.n)), err |-> ""]
    ELSE [L |-> lua_newuserdata(L, v.s), err |-> ""]

---------------------------------------------------------------------------
(* Exceptions, and the wrapped C++ code.  An exception is the name of its  *)
(* class and its what().  The class "lua_error" stands for an error Lua    *)
(* raises itself while a wrapper runs.                                     *)

NoExc == [kind |-> "", what |-> ""]
Exc(kind, what) == [kind |-> kind, what |-> what]

\* The what() of a TypeMismatchError.
TypeMismatchWhat(expectedType, foundType) ==
    "Type mismatch: '" \o expectedType \o "' was expected but '" \o foundType
    \o "' was found."

NoSuchKeyWhat == "Trying to access a table with an invalid key."

UnknownWhat == "Unknown exception caught by wrapper."

\* The exception classes that derive from Diluculum::LuaError.
IsLuaError(kind) ==
    kind \in {"LuaError", "LuaTypeError", "LuaValueError", "TypeMismatchError",
              "NoSuchKeyError"}

\* What a wrapped function, method or constructor does when called: it
\* returns the list ret or throws.
HostReturns(ret) == [throws |-> "", what |-> "", ret |-> ret]
HostThrows(kind, what) == [throws |-> kind, what |-> what, ret |-> <<>>]

\* Diluculum::ToLuaValue (ls, index), which the wrappers call: toLuaValue
\* that also reads a userdata block.
ToLuaValue(L, index) == Decode(L, index, TRUE)

\* LuaValue::asUserData: the exception thrown, none for a userdata value.
asUserData(v) ==
    IF v.type = "userdata" THEN NoExc
    ELSE Exc("TypeMismatchError", TypeMismatchWhat("userdata", typeName(v)))

\* "for (int i = first; i <= numParams; ++i) params.push_back (ToLuaValue (ls, i))"
\* ReadNext is the body of the loop, d what ToLuaValue (ls, i) gave.
RECURSIVE ReadFrom(_, _, _, _), ReadNext(_, _, _, _)
ReadNext(d, i, numParams, params) ==
    IF d.err # "" THEN [L |-> d.L, params |-> params, exc |-> Exc(d.err, d.what)]
    ELSE ReadFrom(d.L, i + 1, numParams, Append(params, d.v))

ReadFrom(L, i, numParams, params) ==
    IF i > numParams THEN [L |-> L, params |-> params, exc |-> NoExc]
    ELSE ReadNext(ToLuaValue(L, i), i, numParams, params)

\* The parameters r read, their slots left on the stack.
EmptyStackKeepsSlots(r, numParams) == r

\* "lua_pop (ls, numParams)" after the parameters r were read.
EmptyStack(r, numParams) ==
    IF r.exc.kind # "" THEN r ELSE [r EXCEPT !.L = lua_pop(r.L, numParams)]

\* "Read parameters and empty the stack".
ReadParams(L, first, numParams) ==
    EmptyStack(ReadFrom(L, first, numParams, <<>>), numParams)

\* "for_each (ret.begin(), ret.end(), bind (PushLuaValue, ls, _1))"
RECURSIVE PushAll(_, _, _)
\* The results pushed last first.
PushAllReversed(L, ret, i) ==
    IF i > Len(ret) THEN [L |-> L, err |-> ""]
    ELSE LET pushed == PushLuaValue(L, ret[Len(ret) - i + 1])
         IN  IF pushed.err # "" THEN pushed ELSE PushAll(pushed.L, ret, i + 1)

PushAll(L, ret, i) ==
    IF i > Len(ret) THEN [L |-> L, err |-> ""]
    ELSE LET pushed == PushLuaValue(L, ret[i])
         IN  IF pushed.err # "" THEN pushed ELSE PushAll(pushed.L, ret, i + 1)

---------------------------------------------------------------------------
(* The table of an exported class, a LuaValueMap filled at static          *)
(* initialisation by one ClassTableFiller per method and completed and     *)
(* stored in a global by Diluculum_Register_Class__CLASS.                  *)

\* The characters of the names the class table and the scripts use.
Ascii(name) ==
    CASE name = "classname" -> <<99, 108, 97, 115, 115, 110, 97, 109, 101>>
      [] name = "new" -> <<110, 101, 119>>
      [] name = "delete" -> <<100, 101, 108, 101, 116, 101>>
      [] name = "__gc" -> <<95, 95, 103, 99>>
      [] name = "__index" -> <<95, 95, 105, 110, 100, 101, 120>>
      [] name = "C" -> <<67>>
      [] name = "m" -> <<109>>
      [] name = "get" -> <<103, 101, 116>>
      [] name = "a" -> <<97>>
      [] name = "b" -> <<98>>

\* #CLASS
ClassName == "C"

\* The lua_CFunctions of the class.
Constructor_Wrapper_Function == 1
Destructor_Wrapper_Function == 2
METHOD_WRAPPER(name) ==
    CASE name = "m" -> 3
      [] name = "get" -> 4
      [] name = "classname" -> 5

\* ClassTableFiller::ClassTableFiller: "classTable[name] = func".
ClassTableFiller(classTable, name, func) ==
    MapAssign(classTable, Str(Ascii(name)), Fun(func))

\* DILUCULUM_CLASS_METHOD (CLASS, METHOD)
DILUCULUM_CLASS_METHOD(classTable, name) ==
    ClassTableFiller(classTable, name, METHOD_WRAPPER(name))

\* 'classTable["__index"] = classTable': the value assigned is a copy of the
\* table, taken before or after operator[] has made the entry of "__index"
\* (the order in which the two sides are evaluated is not specified).
WithIndex(classTable, copyFirst) ==
    MapAssign(classTable, Str(Ascii("__index")),
              Tab(IF copyFirst THEN classTable
                  ELSE MapAssign(classTable, Str(Ascii("__index")), Nil)))

\* The class table after the assignments of Diluculum_Register_Class__CLASS.
CompletedClassTable(classTable, copyFirst) ==
    WithIndex(
        MapAssign(
            MapAssign(
                MapAssign(
                    MapAssign(classTable, Str(Ascii("classname")), Str(Ascii(ClassName))),
                    Str(Ascii("new")), Fun(Constructor_Wrapper_Function)),
                Str(Ascii("delete")), Fun(Destructor_Wrapper_Function)),
            Str(Ascii("__gc")), Fun(Destructor_Wrapper_Function)),
        copyFirst)

\* The global name is set to the value pushed last.
StoreGlobal(pushed, name) ==
    IF pushed.err # "" THEN pushed
    ELSE [L |-> lua_pop([pushed.L EXCEPT !.tables[GlobalsRef] =
                            RawSet(@, LStr(Ascii(name)), pushed.L.stack[Len(pushed.L.stack)])],
                        1),
          err |-> ""]

\* "ls[name] = value": LuaVariable::operator=
AssignGlobal(L, name, value) == StoreGlobal(PushLuaValue(L, value), name)

\* Diluculum_Register_Class__CLASS (ls)
Diluculum_Register_Class(L, classTable, copyFirst) ==
    AssignGlobal(L, ClassName, Tab(CompletedClassTable(classTable, copyFirst)))

---------------------------------------------------------------------------
(* The wrappers.  A wrapper runs on the Lua state L, whose stack holds the *)
(* arguments of the call, and on the C++ objects objs.  It ends in signal  *)
(* "return" with nret results, "lua_error" with the message what,          *)
(* "escaped" when a C++ exception leaves it, or "crash".  raised and       *)
(* thrown are the exception raised while it ran, params the list decoded,  *)
(* called whether the wrapped code was entered, dangling whether it was    *)
(* entered on a destroyed object.                                          *)

Outcome(L, o, signal, nret, what, exc, params, called) ==
    [L |-> L, objs |-> o, signal |-> signal, nret |-> nret, what |-> what,
     raised |-> exc.kind, thrown |-> exc.what, params |-> params,
     called |-> called, dangling |-> FALSE, entry |-> EmptyState, ret |-> <<>>]

\* The outcome out of a wrapper whose wrapped code was entered on the Lua
\* state L.
EnteredOn(out, L) == [out EXCEPT !.entry = L]

\* The outcome out of a wrapper whose wrapped code returned the list ret.
HostReturned(out, ret) == [out EXCEPT !.ret = ret]

\* Impl::ReportErrorFromCFunction (ls, what): lua_error() with what in the message.
ReportErrorFromCFunction(L, o, what, exc, params, called) ==
    Outcome(L, o, "lua_error", 0, what, exc, params, called)

\* A handler chain without the catch (...).
CatchOnlyLuaError(L, o, exc, params, called) ==
    IF IsLuaError(exc.kind)
    THEN ReportErrorFromCFunction(L, o, exc.what, exc, params, called)
    ELSE Outcome(L, o, "escaped", 0, "", exc, params, called)

\* A handler chain whose first handler is the catch (...).
CatchAllFirst(L, o, exc, params, called) ==
    ReportErrorFromCFunction(L, o, UnknownWhat, exc, params, called)

\* The handlers of a wrapper's try block:
\* catch (Diluculum::LuaError& e), then catch (...).
Catch(L, o, exc, params, called) ==
    IF IsLuaError(exc.kind)
    THEN ReportErrorFromCFunction(L, o, exc.what, exc, params, called)
    ELSE ReportErrorFromCFunction(L, o, UnknownWhat, exc, params, called)

\* Lua raises an error inside the wrapper: it is Lua's own lua_error().
LuaRaised(L, o, what, params, called) ==
    Outcome(L, o, "lua_error", 0, what, Exc("lua_error", what), params, called)

\* "Push the return values and return".
PushAndReturn(L, o, ret, params) ==
    LET pushed == PushAll(L, ret, 1)
    IN  HostReturned(
            IF pushed.err # "" THEN LuaRaised(pushed.L, o, pushed.err, params, TRUE)
            ELSE Outcome(pushed.L, o, "return", Len(ret), "", NoExc, params, TRUE),
            ret)

\* The try block of a function wrapper once the parameters rp are read:
\* the call of the wrapped function and the push of what it returns.
CallFunction(rp, o, host) ==
    IF rp.exc.kind # "" THEN Catch(rp.L, o, rp.exc, rp.params, FALSE)
    ELSE EnteredOn(IF host.throws # ""
                   THEN Catch(rp.L, o, Exc(host.throws, host.what), rp.params, TRUE)
                   ELSE PushAndReturn(rp.L, o, host.ret, rp.params),
                   rp.L)

\* The function DILUCULUM_WRAP_FUNCTION creates.
WrapFunction(L, o, host) == CallFunction(ReadParams(L, 1, lua_gettop(L)), o, host)

\* A CppObject in its userdata block: ptr, then deleteMe (1 for true).
CppObject(ptr, deleteMe) == <<ptr, IF deleteMe THEN 1 ELSE 0>>

\* The call of the method on the object cppObj->ptr points to, ud the
\* userdata read from the first slot and rp the parameters.  ubCrash
\* chooses what a call on a destroyed object does: crash, or run as on a
\* live one.
CallMethod(ud, rp, o, host, ubCrash) ==
    IF rp.exc.kind # "" THEN Catch(rp.L, o, rp.exc, rp.params, FALSE)
    ELSE IF asUserData(ud.v).kind # ""
         THEN Catch(rp.L, o, asUserData(ud.v), rp.params, FALSE)
    ELSE LET pObj == ud.v.s[1]
             gone == o[pObj].deleted > 0
             out == IF gone /\ ubCrash
                    THEN Outcome(rp.L, o, "crash", 0, "", NoExc, rp.params, TRUE)
                    ELSE IF host.throws # ""
                         THEN Catch(rp.L, o, Exc(host.throws, host.what), rp.params, TRUE)
                    ELSE PushAndReturn(rp.L, o, host.ret, rp.params)
         IN  EnteredOn([out EXCEPT !.dangling = gone], rp.L)

\* The try block of a method wrapper once the first slot is read as ud.
ReadMethodParams(ud, numParams, o, host, ubCrash) ==
    IF ud.err # "" THEN Catch(ud.L, o, Exc(ud.err, ud.what), <<>>, FALSE)
    ELSE CallMethod(ud, ReadParams(ud.L, 2, numParams), o, host, ubCrash)

\* The function DILUCULUM_WRAP_METHOD creates.
WrapMethod(L, o, host, ubCrash) ==
    ReadMethodParams(ToLuaValue(L, 1), lua_gettop(L), o, host, ubCrash)

\* What the constructor wrapper stores in the CppObject of the new userdata.
ConstructedObject(ptr) == CppObject(ptr, TRUE)

\* The constructor wrapper once the parameters rp are read.  When the
\* constructor throws, the userdata block just made stays without
\* metatable and is left to the collector.
Construct(rp, o, host) ==
    IF rp.exc.kind # "" THEN Catch(rp.L, o, rp.exc, rp.params, FALSE)
    ELSE EnteredOn(
            IF host.throws # ""
            THEN Catch(rp.L, o, Exc(host.throws, host.what), rp.params, TRUE)
            ELSE Outcome(lua_setmetatable(lua_getglobal(
                             lua_newuserdata(rp.L, ConstructedObject(Len(o) + 1)),
                             Ascii(ClassName))),
                         Append(o, [origin |-> "lua", deleted |-> 0]),
                         "return", 1, "", NoExc, rp.params, TRUE),
            rp.L)

\* Diluculum__CLASS__Constructor_Wrapper_Function
WrapConstructor(L, o, host) == Construct(ReadParams(L, 1, lua_gettop(L)), o, host)

\* "delete pObj" on the Lua state L: the destructor of the object runs.
DeleteObject(L, o, pObj) ==
    EnteredOn(Outcome(L, [o EXCEPT ![pObj].deleted = @ + 1],
                      "return", 0, "", NoExc, <<>>, TRUE),
              L)

\* The destructor wrapper that sets deleteMe where it finds it cleared.
WrapDestructorRearms(L, o) ==
    IF lua_type(L, -1) # "userdata"
    THEN Outcome(L, o, "crash", 0, "", NoExc, <<>>, FALSE)
    ELSE LET r == Slot(L, -1).ref
             cppObj == L.udata[r]
         IN  IF cppObj[2] = 1
             THEN DeleteObject([L EXCEPT !.udata[r][2] = 0], o, cppObj[1])
             ELSE Outcome([L EXCEPT !.udata[r][2] = 1], o, "return", 0, "", NoExc,
                          <<>>, FALSE)

\* The destructor wrapper that clears deleteMe after the delete.
WrapDestructorDeletesFirst(L, o) ==
    IF lua_type(L, -1) # "userdata"
    THEN Outcome(L, o, "crash", 0, "", NoExc, <<>>, FALSE)
    ELSE LET r == Slot(L, -1).ref
             cppObj == L.udata[r]
         IN  IF cppObj[2] = 1
             THEN [DeleteObject(L, o, cppObj[1]) EXCEPT !.L.udata[r][2] = 0]
             ELSE Outcome(L, o, "return", 0, "", NoExc, <<>>, FALSE)

\* The destructor wrapper that leaves deleteMe set.
WrapDestructorKeepsFlag(L, o) ==
    IF lua_type(L, -1) # "userdata"
    THEN Outcome(L, o, "crash", 0, "", NoExc, <<>>, FALSE)
    ELSE LET r == Slot(L, -1).ref
             cppObj == L.udata[r]
         IN  IF cppObj[2] = 1
             THEN DeleteObject(L, o, cppObj[1])
             ELSE Outcome(L, o, "return", 0, "", NoExc, <<>>, FALSE)

\* Diluculum__CLASS__Destructor_Wrapper_Function.  lua_touserdata (ls, -1)
\* is NULL when the top of the stack is no userdata, and cppObj->deleteMe
\* then reads through a null pointer.
WrapDestructor(L, o) ==
    IF lua_type(L, -1) # "userdata"
    THEN Outcome(L, o, "crash", 0, "", NoExc, <<>>, FALSE)
    ELSE LET r == Slot(L, -1).ref
             cppObj == L.udata[r]
         IN  IF cppObj[2] = 1
             THEN DeleteObject([L EXCEPT !.udata[r][2] = 0], o, cppObj[1])
             ELSE Outcome(L, o, "return", 0, "", NoExc, <<>>, FALSE)

\* A registration that takes ownership of the object.
RegisteredObjectOwnedByLua(ptr) == CppObject(ptr, TRUE)

\* What DILUCULUM_REGISTER_OBJECT stores in the CppObject of the new userdata.
RegisteredObject(ptr) == CppObject(ptr, FALSE)

\* The loop of DILUCULUM_REGISTER_OBJECT over the keys before the last, the
\* table of globals on top of the stack at first: each key is looked up in
\* the table on top, what it gives must be a table and replaces that table.
RECURSIVE WalkPath(_, _, _)
WalkStep(got, keys, i) ==
    IF lua_type(got, -1) # "table"
    THEN [L |-> got,
          exc |-> Exc("TypeMismatchError", TypeMismatchWhat("table", lua_type(got, -1)))]
    ELSE WalkPath(lua_remove2(got), keys, i + 1)

WalkPath(L, keys, i) ==
    IF i >= Len(keys) THEN [L |-> L, exc |-> NoExc]
    ELSE WalkStep(lua_gettable(PushLuaValue(L, keys[i]).L, -2), keys, i)

\* A registration that makes the userdata before the path is looked up.
StoreObjectUnchecked(walked, keys, block) ==
    IF walked.exc.kind # ""
    THEN [walked EXCEPT !.L = lua_pop(lua_newuserdata(@, block), 1)]
    ELSE [L |-> lua_settable(
                    lua_setmetatable(lua_getglobal(
                        lua_newuserdata(PushLuaValue(walked.L, keys[Len(keys)]).L, block),
                        Ascii(ClassName))),
                    -3).L,
          exc |-> NoExc]

\* The end of DILUCULUM_REGISTER_OBJECT: the last key and a new userdata
\* for the object are pushed, the userdata gets the table of the class as
\* its metatable and is stored in the table the loop left.
StoreObject(walked, keys, block) ==
    IF walked.exc.kind # "" THEN walked
    ELSE [L |-> lua_settable(
                    lua_setmetatable(lua_getglobal(
                        lua_newuserdata(PushLuaValue(walked.L, keys[Len(keys)]).L, block),
                        Ascii(ClassName))),
                    -3).L,
          exc |-> NoExc]

\* DILUCULUM_REGISTER_OBJECT (LUA_VARIABLE, CLASS, OBJECT): keys are the keys
\* of the variable, ptr is the address of the object.
DILUCULUM_REGISTER_OBJECT(L, keys, ptr) ==
    StoreObject(WalkPath(lua_push(L, LTab(GlobalsRef)), keys, 1), keys,
                RegisteredObject(ptr))

---------------------------------------------------------------------------
(* The variables of the parts of the program a behaviour does not use. *)

NoCmp == [done |-> FALSE, lt |-> FALSE, gt |-> FALSE, revlt |-> FALSE, revgt |-> FALSE]

OrderIdle == lhs = Nil /\ rhs = Nil /\ cmp = NoCmp

ValueIdle == val = Nil /\ res = NoResult /\ written = {}

\* No Lua call was made and checked.
NotChecked == [done |-> FALSE, entry |-> EmptyState, kind |-> "", fixed |-> "", bytes |-> <<>>]

SessionIdle == retCode = "0" /\ thrown = NotChecked

IndexIdle == idx = 0 /\ twin = NoDecode

MarshalIdle ==
    /\ vm = EmptyState /\ orig = Nil /\ dec = [phase |-> "idle", r |-> NoDecode]
    /\ SessionIdle
    /\ IndexIdle

NoCall ==
    [shape |-> "none", args |-> <<>>, signal |-> "none", nret |-> 0, what |-> "",
     raised |-> "", thrown |-> "", params |-> <<>>, called |-> FALSE,
     dangling |-> FALSE, stack |-> <<>>, entry |-> EmptyState, ret |-> <<>>,
     ptr |-> 0]

\* The tables the scripts of the model hold: the table of globals, where a
\* script has set a to a table, and that table.
ScriptTables ==
    << <<[k |-> LStr(<<97>>), v |-> LTab(2)]>>, <<[k |-> LStr(<<97>>), v |-> LNum(1)]>> >>

\* The Lua state of the scripts before a class is registered.
ScriptState == [stack |-> <<>>, tables |-> ScriptTables, udata |-> <<>>, meta |-> <<>>]

\* The class of the model, with its method m, registered in that state.
RegisteredState ==
    Diluculum_Register_Class(ScriptState, DILUCULUM_CLASS_METHOD(<<>>, "m"), TRUE).L

\* The Lua state right after DILUCULUM_REGISTER_CLASS: no object yet.
BindIdle ==
    /\ ls = RegisteredState
    /\ Class_Table = CompletedClassTable(DILUCULUM_CLASS_METHOD(<<>>, "m"), TRUE)
    /\ methods = {"m"}
    /\ objs = <<>>
    /\ notified = <<>>
    /\ call = NoCall
    /\ crashed = FALSE

---------------------------------------------------------------------------
(* Calls of the accessors and of operator[] on val. *)

\* The keys and the values operator[] is called with.
IndexKeys == {Bool(TRUE), Num(0), Tab(<<>>), UserData(<<>>), UserData(<<0>>)}
IndexVals == {Nil, Num(0)}

InitValue ==
    /\ val \in Scalars \cup Payloads \cup {Tab(<<>>)}
    /\ res = NoResult
    /\ written = {}
    /\ OrderIdle
    /\ MarshalIdle
    /\ BindIdle

\* written, with key recorded as last assigned value.
Record(w, key, value) == {e \in w : e.k # key} \cup {[k |-> key, v |-> value]}

\* val[key] = value: the non-const operator[], then the assignment through
\* the reference it returned.
IndexWrite(key, value) ==
    LET at == Subscript(val, key)
    IN  /\ at.r.status = "ok" => Len(at.v.m) <= MaxEntries
        /\ IF at.r.status = "ok"
           THEN /\ val' = Tab([at.v.m EXCEPT ![at.i].v = value])
                /\ res' = [at.r EXCEPT !.op = "write", !.value = value]
                /\ written' = Record(written, key, value)
           ELSE /\ val' = at.v
                /\ res' = [at.r EXCEPT !.op = "write"]
                /\ UNCHANGED written
        /\ UNCHANGED <<orderVars, marshalVars, bindVars>>

\* val[key] on a non-const LuaValue with nothing assigned: the non-const
\* operator[] alone, which inserts key with Nil when the table lacks it.
IndexAccess(key) ==
    LET at == Subscript(val, key)
    IN  /\ at.r.status = "ok" => Len(at.v.m) <= MaxEntries
        /\ val' = at.v
        /\ res' = at.r
        /\ written' = IF at.r.status = "ok" /\ at.v # val
                      THEN Record(written, key, Nil) ELSE written
        /\ UNCHANGED <<orderVars, marshalVars, bindVars>>

\* val[key] on a const LuaValue.
IndexRead(key) ==
    /\ res' = SubscriptConst(val, key)
    /\ UNCHANGED <<val, written>>
    /\ UNCHANGED <<orderVars, marshalVars, bindVars>>

CallAsNumber == res' = asNumber(val) /\ UNCHANGED <<val, written>> /\ UNCHANGED <<orderVars, marshalVars, bindVars>>
CallAsString == res' = asString(val) /\ UNCHANGED <<val, written>> /\ UNCHANGED <<orderVars, marshalVars, bindVars>>
CallAsBoolean == res' = asBoolean(val) /\ UNCHANGED <<val, written>> /\ UNCHANGED <<orderVars, marshalVars, bindVars>>
CallAsTable == res' = asTable(val) /\ UNCHANGED <<val, written>> /\ UNCHANGED <<orderVars, marshalVars, bindVars>>

NextValue ==
    \/ \E key \in IndexKeys, value \in IndexVals : IndexWrite(key, value)
    \/ \E key \in IndexKeys : IndexAccess(key)
    \/ \E key \in IndexKeys : IndexRead(key)
    \/ CallAsNumber
    \/ CallAsString
    \/ CallAsBoolean
    \/ CallAsTable

SpecValue == InitValue /\ [][NextValue]_vars

---------------------------------------------------------------------------
(* A LuaValue is pushed onto the stack and the slot is decoded.            *)

MarshalValues == Scalars \cup Tables \cup {WrapAsKey(Nil)}

InitMarshal ==
    /\ vm = EmptyState
    /\ orig \in MarshalValues
    /\ dec = [phase |-> "start", r |-> NoDecode]
    /\ SessionIdle
    /\ IndexIdle
    /\ OrderIdle
    /\ ValueIdle
    /\ BindIdle

\* PushLuaValue (state, orig)
Push ==
    /\ dec.phase = "start"
    /\ LET pushed == PushLuaValue(vm, orig)
       IN  /\ vm' = pushed.L
           /\ dec' = [phase |-> IF pushed.err = "" THEN "pushed" ELSE "error",
                      r |-> [NoDecode EXCEPT !.err = IF pushed.err = "" THEN "" ELSE "lua_error",
                                             !.what = pushed.err]]
    /\ UNCHANGED <<orig, idx, twin, retCode, thrown>>
    /\ UNCHANGED <<orderVars, valueVars, bindVars>>

\* toLuaValue (-1)
DecodeTop ==
    /\ dec.phase = "pushed"
    /\ LET r == toLuaValue(vm, -1)
       IN  /\ vm' = r.L
           /\ dec' = [phase |-> "decoded", r |-> [r EXCEPT !.L = EmptyState]]
    /\ UNCHANGED <<orig, idx, twin, retCode, thrown>>
    /\ UNCHANGED <<orderVars, valueVars, bindVars>>

NextMarshal == Push \/ DecodeTop

SpecMarshal == InitMarshal /\ [][NextMarshal]_vars

\* C5: decoding the slot PushLuaValue produced for a LuaValue built from nil,
\* booleans, numbers, strings and tables yields a value equal to it.
C5_RoundTrip ==
    /\ dec.phase # "error"
    /\ dec.phase = "decoded" => (dec.r.err = "" /\ dec.r.v = orig)

\* A value the round trip keeps: no nil key, no nil value and no NUL byte in
\* a string, at any depth.
RECURSIVE Survives(_), EntriesSurvive(_, _)
EntriesSurvive(m, i) ==
    i > Len(m) \/ ( /\ m[i].k.type # "nil" /\ m[i].v.type # "nil"
                    /\ Survives(m[i].k) /\ Survives(m[i].v)
                    /\ EntriesSurvive(m, i + 1) )
Survives(v) ==
    IF v.type = "string" THEN \A i \in 1..Len(v.s) : v.s[i] # 0
    ELSE IF v.type = "table" THEN EntriesSurvive(v.m, 1)
    ELSE TRUE

\* The round trip of the values without nil entries and NUL bytes.
RoundTripOfSurvivors ==
    Survives(orig) => C5_RoundTrip

---------------------------------------------------------------------------
(* Comparing two LuaValues. *)

InitOrder ==
    /\ lhs \in Values \cup PayloadTables
    /\ rhs \in Values \cup PayloadTables
    /\ cmp = NoCmp
    /\ ValueIdle
    /\ MarshalIdle
    /\ BindIdle

\* lhs < rhs, lhs > rhs, rhs < lhs and rhs > lhs are evaluated.
Compare ==
    /\ ~cmp.done
    /\ cmp' = [done |-> TRUE,
               lt |-> LessThan(lhs, rhs), gt |-> GreaterThan(lhs, rhs),
               revlt |-> LessThan(rhs, lhs), revgt |-> GreaterThan(rhs, lhs)]
    /\ UNCHANGED <<lhs, rhs>>
    /\ UNCHANGED <<valueVars, marshalVars, bindVars>>

NextOrder == Compare

SpecOrder == InitOrder /\ [][NextOrder]_vars

---------------------------------------------------------------------------
(* Calls of the wrappers.  Lua calls a wrapper on a stack that holds the   *)
(* arguments of the call and takes the results from it when it returns.    *)

Frame(L, args) == [L EXCEPT !.stack = args]

\* Lua after the call: the script drops the results it took from the stack
\* and the tables made during the call are collected.
Collected(L) ==
    [L EXCEPT !.stack = <<>>, !.tables = SubSeq(@, 1, Len(ls.tables))]

\* The state after a wrapper ended in out.
Ended(shape, args, out) ==
    /\ ls' = Collected(out.L)
    /\ objs' = out.objs
    /\ call' = [shape |-> shape, args |-> args, signal |-> out.signal,
                nret |-> out.nret, what |-> out.what, raised |-> out.raised,
                thrown |-> out.thrown, params |-> out.params,
                called |-> out.called, dangling |-> out.dangling,
                stack |-> out.L.stack, entry |-> out.entry, ret |-> out.ret,
                ptr |-> 0]
    /\ crashed' = (out.signal = "crash")
    /\ UNCHANGED <<Class_Table, methods>>

\* A script calls a function exported with DILUCULUM_WRAP_FUNCTION.
FunctionDispatch(args, host) ==
    /\ ~crashed
    /\ Ended("function", args, WrapFunction(Frame(ls, args), objs, host))
    /\ UNCHANGED notified
    /\ UNCHANGED <<orderVars, valueVars, marshalVars>>

\* The state after the constructor wrapper ended in out: the collector
\* will notify for the userdata it returned.
Constructed(args, out) ==
    /\ Ended("constructor", args, out)
    /\ notified' = IF out.signal = "return" THEN Append(notified, 0) ELSE notified

\* A script calls CLASS.new.
ConstructorDispatch(args, host) ==
    /\ ~crashed
    /\ Len(ls.udata) < MaxHandles
    /\ Constructed(args, WrapConstructor(Frame(ls, args), objs, host))
    /\ UNCHANGED <<orderVars, valueVars, marshalVars>>

\* The state after a method wrapper ended in out; the crash is chosen only
\* where it can happen.
MethodEnded(args, out, ubCrash) ==
    /\ ubCrash => out.signal = "crash"
    /\ Ended("method", args, out)

\* A script calls a method exported with DILUCULUM_CLASS_METHOD.
MethodDispatch(args, host, ubCrash) ==
    /\ ~crashed
    /\ MethodEnded(args, WrapMethod(Frame(ls, args), objs, host, ubCrash), ubCrash)
    /\ UNCHANGED notified
    /\ UNCHANGED <<orderVars, valueVars, marshalVars>>

\* The destructor wrapper is called on the stack args, from a script through
\* "delete" or by the collector through "__gc".
DestructorDispatch(shape, args) ==
    /\ ~crashed
    /\ LET top == IF args # <<>> /\ args[Len(args)].t = "userdata"
                  THEN args[Len(args)].ref ELSE 0
       IN  /\ top # 0 => notified[top] < MaxNotify
           /\ Ended(shape, args, WrapDestructor(Frame(ls, args), objs))
           /\ notified' = IF top # 0 THEN [notified EXCEPT ![top] = @ + 1] ELSE notified
    /\ UNCHANGED <<orderVars, valueVars, marshalVars>>

\* A script calls CLASS.delete.
ExplicitDelete(args) == DestructorDispatch("delete", args)

\* The collector calls __gc on the userdata h.
Collect(h) == DestructorDispatch("__gc", <<LUd(h)>>)

\* The state after DILUCULUM_REGISTER_OBJECT ended in out, by returning or
\* by throwing: the collector will notify for the userdata it made.  The
\* slots it leaves on the stack of the host are in call.stack.
Registered(keys, ptr, out) ==
    /\ ls' = Collected(out.L)
    /\ notified' = IF out.exc.kind = "" THEN Append(notified, 0) ELSE notified
    /\ call' = [NoCall EXCEPT !.shape = "register", !.params = keys, !.ptr = ptr,
                              !.signal = IF out.exc.kind = "" THEN "return" ELSE "throw",
                              !.raised = out.exc.kind, !.thrown = out.exc.what,
                              !.stack = out.L.stack]

\* The host registers the object ptr, a C++ object it made, registered
\* before or not, in the variable of the keys.
RegisterObject(keys, ptr) ==
    /\ ~crashed
    /\ Len(ls.udata) < MaxHandles
    /\ ptr <= MaxHandles
    /\ ptr \in 1..Len(objs) => objs[ptr].origin = "cpp"
    /\ Registered(keys, ptr, DILUCULUM_REGISTER_OBJECT(ls, keys, ptr))
    /\ objs' = IF ptr \in 1..Len(objs) THEN objs
               ELSE Append(objs, [origin |-> "cpp", deleted |-> 0])
    /\ UNCHANGED <<crashed, Class_Table, methods>>
    /\ UNCHANGED <<orderVars, valueVars, marshalVars>>

InitBind ==
    /\ BindIdle
    /\ OrderIdle
    /\ ValueIdle
    /\ MarshalIdle

Handles == 1..Len(ls.udata)

\* The variables the host registers objects in: b, a.b and b.a, where a
\* is a table of the scripts.
Paths ==
    {<<Str(Ascii("b"))>>, <<Str(Ascii("a")), Str(Ascii("b"))>>,
     <<Str(Ascii("b")), Str(Ascii("a"))>>}

\* The life of the exported objects: scripts construct objects, call a
\* method on them and delete them, the host registers objects, the
\* collector notifies.
Next ==
    \/ \E host \in {HostReturns(<<>>), HostThrows("LuaError", "constructor failed")} :
            ConstructorDispatch(<<>>, host)
    \/ \E h \in Handles, ubCrash \in BOOLEAN :
            MethodDispatch(<<LUd(h)>>, HostReturns(<<Num(1)>>), ubCrash)
    \/ \E args \in {<<>>, <<LNum(0)>>} \cup {<<LUd(h)>> : h \in Handles} :
            ExplicitDelete(args)
    \/ \E h \in Handles : Collect(h)
    \/ \E ptr \in 1..(Len(objs) + 1) : RegisterObject(<<Str(Ascii("b"))>>, ptr)

Spec == InitBind /\ [][Next]_vars

\* The values a script passes to a wrapper, and the lists of them: a table
\* it holds, a function, and the userdata made last.
ArgValues == {LTab(2), LFun(1)} \cup {LUd(h) : h \in {Len(ls.udata)} \cap Handles}
ArgLists == UNION {[1..n -> ArgValues] : n \in 0..MaxArgs}

\* What the wrapped C++ code may do.
Hosts ==
    {HostReturns(<<Num(0), Str(<<97>>)>>),
     HostReturns(<<WrapAsKey(Nil)>>),
     HostThrows("LuaError", "host error"),
     HostThrows("TypeMismatchError", TypeMismatchWhat("number", "nil")),
     HostThrows("NoSuchKeyError", NoSuchKeyWhat),
     HostThrows("std::bad_alloc", "std::bad_alloc")}

\* Scripts call the exported function, the constructor and the method with
\* any arguments, and the wrapped code does what it likes.
NextDispatch ==
    \/ \E args \in ArgLists, host \in Hosts : FunctionDispatch(args, host)
    \/ \E args \in ArgLists, host \in Hosts : ConstructorDispatch(args, host)
    \/ \E args \in ArgLists, host \in Hosts : MethodDispatch(args, host, FALSE)

SpecDispatch == InitBind /\ [][NextDispatch]_vars

---------------------------------------------------------------------------
(* A class is exported: DILUCULUM_CLASS_METHOD once per method at static   *)
(* initialisation, then DILUCULUM_REGISTER_CLASS on the Lua state, after   *)
(* which scripts construct objects and the host registers objects.         *)

\* The value of a global, nil for none.
GlobalValue(L, name) ==
    IF RawFind(L.tables[GlobalsRef], LStr(Ascii(name)), 1) = 0 THEN LNil
    ELSE L.tables[GlobalsRef][RawFind(L.tables[GlobalsRef], LStr(Ascii(name)), 1)].v

\* DILUCULUM_REGISTER_CLASS has run on the state.
Published == GlobalValue(ls, ClassName).t # "nil"

\* The names of the methods the class of the model may export.
MethodNames == {"m", "get", "classname"}

\* DILUCULUM_CLASS_METHOD (CLASS, name): a static ClassTableFiller.
ClassMethod(name) ==
    /\ ~Published
    /\ name \notin methods
    /\ Class_Table' = DILUCULUM_CLASS_METHOD(Class_Table, name)
    /\ methods' = methods \cup {name}
    /\ UNCHANGED <<ls, objs, notified, call, crashed>>
    /\ UNCHANGED <<orderVars, valueVars, marshalVars>>

\* DILUCULUM_REGISTER_CLASS (ls, CLASS): the static table is completed and
\* assigned to the global of the name of the class.
RegisterClass(copyFirst) ==
    /\ ~Published
    /\ Class_Table' = CompletedClassTable(Class_Table, copyFirst)
    /\ ls' = Diluculum_Register_Class(ls, Class_Table, copyFirst).L
    /\ call' = [NoCall EXCEPT !.shape = "publish", !.signal = "return"]
    /\ UNCHANGED <<objs, notified, crashed, methods>>
    /\ UNCHANGED <<orderVars, valueVars, marshalVars>>

InitClass ==
    /\ ls = ScriptState
    /\ Class_Table = <<>>
    /\ methods = {}
    /\ objs = <<>>
    /\ notified = <<>>
    /\ call = NoCall
    /\ crashed = FALSE
    /\ OrderIdle
    /\ ValueIdle
    /\ MarshalIdle

NextClass ==
    \/ \E name \in MethodNames : ClassMethod(name)
    \/ \E copyFirst \in BOOLEAN : RegisterClass(copyFirst)
    \/ Published /\ ConstructorDispatch(<<>>, HostReturns(<<>>))
    \/ Published /\ \E keys \in Paths, ptr \in 1..(Len(objs) + 1) : RegisterObject(keys, ptr)

SpecClass == InitClass /\ [][NextClass]_vars

---------------------------------------------------------------------------
(* A slot a script filled is decoded.  The tables a script holds: an       *)
(* innermost table of entries of any type, wrapped as a key or as a value  *)
(* into further tables that hold one more entry after it.                  *)

ScriptKeys == {LNum(0), LStr(<<97>>), LFun(1)}
ScriptVals == {LNum(1), LThread(1), LUd(1)}
ScriptAtoms == ScriptKeys \cup ScriptVals \cup {LNil, LBool(TRUE)}

\* The entries of a table, keys distinct, in the order of traversal.
ScriptEntries ==
    {es \in UNION {[1..k -> [k : ScriptKeys, v : ScriptVals]] : k \in 0..MaxEntries} :
        \A i, j \in 1..Len(es) : i # j => es[i].k # es[j].k}

Sibling == [k |-> LStr(<<97>>), v |-> LBool(TRUE)]

\* The tables of a heap h with one more table that holds the last table
\* of h, as a key or as a value.
Wraps(h) ==
    {Append(h, <<[k |-> LNum(0), v |-> LTab(Len(h))], Sibling>>),
     Append(h, <<[k |-> LTab(Len(h)), v |-> LNum(0)], Sibling>>)}

RECURSIVE ScriptHeaps(_)
ScriptHeaps(d) ==
    IF d = 0 THEN {<<es>> : es \in ScriptEntries}
    ELSE UNION {Wraps(h) : h \in ScriptHeaps(d - 1)}

\* A stack of one slot: a value of any type, or the outermost table.
InitDecode ==
    /\ \/ \E x \in ScriptAtoms :
            vm = [stack |-> <<x>>, tables |-> <<>>, udata |-> << <<>> >>, meta |-> <<0>>]
       \/ \E d \in 0..MaxDepth : \E h \in ScriptHeaps(d) :
            vm = [stack |-> <<LTab(Len(h))>>, tables |-> h, udata |-> << <<>> >>,
                  meta |-> <<0>>]
    /\ orig = Nil
    /\ dec = [phase |-> "pushed", r |-> NoDecode]
    /\ SessionIdle
    /\ IndexIdle
    /\ OrderIdle
    /\ ValueIdle
    /\ BindIdle

SpecDecode == InitDecode /\ [][DecodeTop]_vars

\* The types toLuaValue has a case for.
SupportedTypes == {"nil", "number", "boolean", "string", "table"}

\* x is of an unsupported type, or a table that holds such a key or value
\* at some depth.
RECURSIVE HoldsUnsupported(_, _)
HoldsUnsupported(tables, x) ==
    \/ x.t \notin SupportedTypes
    \/ /\ x.t = "table"
       /\ \E i \in 1..Len(tables[x.ref]) :
            \/ HoldsUnsupported(tables, tables[x.ref][i].k)
            \/ HoldsUnsupported(tables, tables[x.ref][i].v)

\* C11: toLuaValue on a slot of a type other than nil, number, boolean,
\* string and table throws LuaTypeError and returns no value, also when
\* the value of that type is a key or a value at any depth of the table
\* decoded: no table comes back with the entry left out.
C11_UnsupportedTypeThrows ==
    (dec.phase = "decoded" /\ HoldsUnsupported(vm.tables, vm.stack[1])) =>
        /\ dec.r.err = "LuaTypeError"
        /\ dec.r.what = "Unsupported type found in call to 'LuaState::toLuaValue()'"
        /\ dec.r.v = Nil

\* A function is a key two tables deep, next to entries toLuaValue can read.
C11_Witness ==
    /\ dec.phase = "decoded"
    /\ Len(vm.tables) = 3
    /\ \E i \in 1..Len(vm.tables[1]) : vm.tables[1][i].k.t = "function"
    /\ \E i \in 1..Len(vm.tables[1]) : ~HoldsUnsupported(vm.tables, vm.tables[1][i].k)
    /\ dec.r.err = "LuaTypeError"

---------------------------------------------------------------------------
(* toLuaValue is called with any index, positive or negative, on a stack   *)
(* of several slots.  The slot of interest holds a table of a script whose *)
(* keys are numbers from 1 on, strings and two tables of the script, which *)
(* are different tables whatever they hold.                                *)

\* What the two tables used as keys and values hold.
InnerEntries == {<<>>, <<[k |-> LNum(1), v |-> LNum(0)]>>}

TraverseKeys ==
    {LNum(i) : i \in 1..MaxEntries} \cup {LStr(<<>>), LStr(<<0>>)} \cup {LTab(1), LTab(2)}
TraverseVals == {LNum(0), LTab(1)}

\* The entries of the table, keys distinct, in the order of traversal.
TraverseEntries ==
    {es \in UNION {[1..n -> [k : TraverseKeys, v : TraverseVals]] : n \in 0..MaxEntries} :
        \A i, j \in 1..Len(es) : i # j => es[i].k # es[j].k}

\* The slots below and above the table.
SlotsBelow == {<<>>, <<LNum(0)>>}
SlotsAbove == {<<>>, <<LStr(<<97>>)>>}

InitTraverse ==
    /\ \E t1 \in InnerEntries, t2 \in InnerEntries, es \in TraverseEntries :
       \E below \in SlotsBelow, above \in SlotsAbove :
            vm = [stack |-> Append(below, LTab(3)) \o above, tables |-> <<t1, t2, es>>,
                  udata |-> <<>>, meta |-> <<>>]
    /\ orig = Nil
    /\ dec = [phase |-> "pushed", r |-> NoDecode]
    /\ SessionIdle
    /\ IndexIdle
    /\ OrderIdle
    /\ ValueIdle
    /\ BindIdle

\* The index of the other sign that refers to the slot of index i.
OtherSign(L, i) == IF i < 0 THEN lua_gettop(L) + i + 1 ELSE i - lua_gettop(L) - 1

\* The state after toLuaValue (i) ended in r; t is what toLuaValue gives on
\* the same stack for the index of the other sign.
Traversed(i, r, t) ==
    /\ vm' = r.L
    /\ dec' = [phase |-> "decoded", r |-> [r EXCEPT !.L = EmptyState]]
    /\ idx' = i
    /\ twin' = t

\* toLuaValue (i)
DecodeAt(i) ==
    /\ dec.phase = "pushed"
    /\ Traversed(i, toLuaValue(vm, i), toLuaValue(vm, OtherSign(vm, i)))
    /\ UNCHANGED <<orig, retCode, thrown>>
    /\ UNCHANGED <<orderVars, valueVars, bindVars>>

NextTraverse ==
    \E i \in (-lua_gettop(vm))..lua_gettop(vm) : i # 0 /\ DecodeAt(i)

SpecTraverse == InitTraverse /\ [][NextTraverse]_vars

---------------------------------------------------------------------------
(* A chunk is loaded or called in protected mode and the status is handed  *)
(* to throwOnLuaError.  On a status other than 0 Lua leaves the error      *)
(* value on top of the stack: a message, or whatever the script passed to  *)
(* error(); on 0 the results of the call.                                  *)

RetCodes == {"0", "LUA_ERRRUN", "LUA_ERRFILE", "LUA_ERRSYNTAX", "LUA_ERRMEM", "LUA_ERRERR"}

\* The values a call leaves on top of the stack.
TopValues ==
    {LStr(x) : x \in Strings} \cup {LNum(x) : x \in 0..MaxNum}
    \cup {LNil, LBool(FALSE), LTab(1)}

\* The stack below the top: what the host left there before the call.
StacksBelow == {<<>>, <<LNum(0)>>, <<LStr(<<97>>)>>}

InitSession ==
    /\ retCode \in RetCodes
    /\ \E below \in StacksBelow, top \in TopValues :
        vm = [stack |-> Append(below, top), tables |-> << <<>> >>, udata |-> <<>>,
              meta |-> <<>>]
    /\ thrown = NotChecked
    /\ orig = Nil
    /\ dec = [phase |-> "idle", r |-> NoDecode]
    /\ IndexIdle
    /\ OrderIdle
    /\ ValueIdle
    /\ BindIdle

\* The state after throwOnLuaError ended in t.
ThrownBy(t) ==
    /\ vm' = t.L
    /\ thrown' = [done |-> TRUE, entry |-> vm, kind |-> t.kind, fixed |-> t.fixed,
                  bytes |-> t.bytes]

\* throwOnLuaError (retCode)
ThrowOnLuaError ==
    /\ ~thrown.done
    /\ ThrownBy(throwOnLuaError(vm, retCode))
    /\ UNCHANGED <<orig, dec, idx, twin, retCode>>
    /\ UNCHANGED <<orderVars, valueVars, bindVars>>

SpecSession == InitSession /\ [][ThrowOnLuaError]_vars

\* C12: after a status other than 0 throwOnLuaError throws the exception of
\* the class of that status, with the string on top of the stack as its
\* message, or with the fixed text when the top is no string; after 0 it
\* throws nothing and leaves the stack as it was.
C12_TypedFailureWithMessage ==
    thrown.done =>
        IF retCode = "0" THEN thrown.kind = "" /\ vm = thrown.entry
        ELSE /\ thrown.kind = ErrorClass(retCode)
             /\ thrown.kind # "LuaError"
             /\ IF lua_type(thrown.entry, -1) = "string"
                THEN thrown.fixed = "" /\ thrown.bytes = Slot(thrown.entry, -1).s
                ELSE thrown.fixed = NoInformation

\* A string of C: no NUL byte in it.
IsCString(x) == x.t = "string" /\ \A i \in 1..Len(x.s) : x.s[i] # 0

\* The same for the error values that are strings without a NUL byte and
\* for those that are neither strings nor numbers.
TypedFailureForCStrings ==
    (lua_type(thrown.entry, -1) = "number" \/
        (lua_type(thrown.entry, -1) = "string" /\ ~IsCString(Slot(thrown.entry, -1))))
    \/ C12_TypedFailureWithMessage

---------------------------------------------------------------------------
(* Ownership of the exported objects. *)

\* The C++ object the userdata h wraps.
Wrapped(h) == objs[ls.udata[h][1]]

\* C1: an object made by the constructor wrapper is destroyed exactly once by
\* the notifications on its userdata (delete calls and __gc, any number and
\* order, at least one): not zero times, not twice.
C1_ConstructedDestroyedOnce ==
    \A h \in Handles :
        Wrapped(h).origin = "lua" =>
            /\ Wrapped(h).deleted <= 1
            /\ notified[h] >= 1 => Wrapped(h).deleted = 1

\* A constructed object notified twice, the last time by the call just ended.
C1_Witness ==
    /\ call.shape \in {"delete", "__gc"}
    /\ \E h \in Handles :
        /\ call.args = <<LUd(h)>>
        /\ Wrapped(h).origin = "lua"
        /\ notified[h] >= 2
        /\ Wrapped(h).deleted = 1

\* C2: an object registered with DILUCULUM_REGISTER_OBJECT is never destroyed
\* by the wrappers, whatever delete calls and __gc notifications its
\* userdata gets.
C2_RegisteredNeverDestroyed ==
    \A h \in Handles : Wrapped(h).origin = "cpp" => Wrapped(h).deleted = 0

\* A registered object whose userdata was notified twice.
C2_Witness ==
    /\ call.shape \in {"delete", "__gc"}
    /\ \E h \in Handles :
        /\ call.args = <<LUd(h)>>
        /\ Wrapped(h).origin = "cpp"
        /\ notified[h] >= 2
        /\ Wrapped(h).deleted = 0

---------------------------------------------------------------------------
(* The failures of a dispatch. *)

DispatchShapes == {"function", "constructor", "method"}

\* C3: in a function, constructor or method wrapper every failure, raised
\* while the arguments are read, by the wrapped code or while the results
\* are pushed, of a Diluculum class or not, ends the wrapper in Lua's error
\* signal; no C++ exception leaves the wrapper.
C3_FailuresContained ==
    call.shape \in DispatchShapes =>
        /\ call.signal # "escaped"
        /\ call.raised # "" => call.signal = "lua_error"

\* A constructor that throws an exception of no Diluculum class.
C3_Witness ==
    /\ call.shape = "constructor"
    /\ call.called
    /\ call.raised = "std::bad_alloc"
    /\ call.signal = "lua_error"

\* The kinds of failure the wrappers report with their own message: the
\* Diluculum errors and the errors Lua raises itself.
OwnMessageKinds ==
    {"LuaError", "LuaTypeError", "TypeMismatchError", "NoSuchKeyError", "lua_error"}

\* C4: a failure of the wrapped code, of the reading of the arguments or of
\* the push of the results (TypeMismatchError, NoSuchKeyError and the
\* unsupported type of toLuaValue among them) reaches Lua with its own
\* message; only a failure of another kind reaches it as
\* "Unknown exception caught by wrapper.".
C4_FailureMessages ==
    call.shape \in DispatchShapes /\ call.raised # "" =>
        call.what = IF call.raised \in OwnMessageKinds THEN call.thrown
                    ELSE "Unknown exception caught by wrapper."

\* A method called on a table: asUserData throws before the method runs.
C4_Witness ==
    /\ call.shape = "method"
    /\ ~call.called
    /\ call.raised = "TypeMismatchError"
    /\ call.what = "Type mismatch: 'userdata' was expected but 'table' was found."

---------------------------------------------------------------------------
(* Table access and the typed accessors. *)

\* C6: after val[k] = v with v not Nil, reading val[k] yields v until k is
\* assigned again, and reading a key that was never assigned fails with
\* NoSuchKeyError carrying that key.
C6_TableAccess ==
    (res.op = "read" /\ res.before.type = "table") =>
        IF \E e \in written : e.k = res.key
        THEN \A e \in written :
                (e.k = res.key /\ e.v # Nil) => (res.status = "ok" /\ res.value = e.v)
        ELSE res.status = "NoSuchKeyError" /\ res.badKey = res.key

\* The same, as long as no userdata value has been used as a key.
TableAccessWithoutUserDataKeys ==
    (\A e \in written : e.k.type # "userdata") =>
        (res.key.type # "userdata" => C6_TableAccess)

\* C10: each typed accessor returns the stored value when the active variant
\* is its own, and otherwise throws TypeMismatchError with the accessor's
\* type name as expected and typeName() of the value as found; operator[],
\* const or not, on a value that is no table throws
\* TypeMismatchError ("table", typeName()) and leaves the value as it was.
AccessorContract(op, kind) ==
    res.op = op =>
        IF res.before.type = kind
        THEN res.status = "ok" /\ res.value = res.before
        ELSE /\ res.status = "TypeMismatchError"
             /\ res.expected = kind
             /\ res.found = typeName(res.before)

C10_AccessorsAndIndexing ==
    /\ AccessorContract("asNumber", "number")
    /\ AccessorContract("asString", "string")
    /\ AccessorContract("asBoolean", "boolean")
    /\ AccessorContract("asTable", "table")
    /\ (res.op \in {"read", "write", "subscript"} /\ res.before.type # "table") =>
            /\ res.status = "TypeMismatchError"
            /\ res.expected = "table"
            /\ res.found = typeName(res.before)
            /\ val = res.before
    /\ res.op \in {"asNumber", "asString", "asBoolean", "asTable", "read"} =>
            val = res.before

\* asTable has been called on a number, and an assignment through operator[]
\* has been tried on a string.
C10_Witness ==
    \/ res.op = "asTable" /\ res.status = "TypeMismatchError" /\ res.found = "number"
    \/ res.op = "write" /\ res.status = "TypeMismatchError" /\ res.found = "string"

---------------------------------------------------------------------------
(* The ordering of LuaValues. *)

IsPrimitive(v) == v.type \in {"nil", "boolean", "number", "string"}

C8_GreaterIsConverseOfLess ==
    cmp.done => /\ cmp.gt <=> cmp.revlt
                /\ cmp.revgt <=> cmp.lt

\* Two tables of the same size whose first entry is itself a table have been
\* compared, and lhs > rhs.
C8_Witness ==
    /\ cmp.done /\ lhs.type = "table" /\ rhs.type = "table"
    /\ Len(lhs.m) = Len(rhs.m) /\ Len(lhs.m) > 0
    /\ lhs.m[1].k.type = "table" /\ rhs.m[1].k.type = "table"
    /\ cmp.gt /\ cmp.revlt

\* The order LuaUserData.hpp documents: the smaller block is less; of two
\* blocks of the same size, the one whose bytes compare lower (memcmp).
PayloadLess(s, t) ==
    \/ Len(s) < Len(t)
    \/ /\ Len(s) = Len(t)
       /\ \E i \in 1..Len(s) : s[i] < t[i] /\ \A j \in 1..(i - 1) : s[j] = t[j]

\* C9: two LuaValues that both hold userdata are ordered by the size of the
\* block and then by its bytes, and two different blocks are never equal
\* to operator< and operator>.
C9_PayloadOrder ==
    (cmp.done /\ lhs.type = "userdata" /\ rhs.type = "userdata") =>
        /\ cmp.lt <=> PayloadLess(lhs.s, rhs.s)
        /\ cmp.gt <=> PayloadLess(rhs.s, lhs.s)
        /\ (lhs.s # rhs.s) => (cmp.lt \/ cmp.gt)

\* What the code does instead: two userdata values are never ordered.
PayloadsNeverOrdered ==
    (cmp.done /\ lhs.type = "userdata" /\ rhs.type = "userdata") =>
        ~cmp.lt /\ ~cmp.gt

---------------------------------------------------------------------------
(* The table of a published class. *)

\* The table stored under the name of the class, and a field of a table
\* of the Lua state ls, nil for none.
ClassGlobal == GlobalValue(ls, ClassName)
Field(t, name) ==
    IF t.t # "table" \/ RawFind(ls.tables[t.ref], LStr(Ascii(name)), 1) = 0 THEN LNil
    ELSE ls.tables[t.ref][RawFind(ls.tables[t.ref], LStr(Ascii(name)), 1)].v

\* The table of the class holds classname, new, delete and __gc, the last
\* two bound to the same wrapper, and a table under __index.
FixedEntries ==
    /\ ClassGlobal.t = "table"
    /\ Field(ClassGlobal, "classname") = LStr(Ascii(ClassName))
    /\ Field(ClassGlobal, "new") = LFun(Constructor_Wrapper_Function)
    /\ Field(ClassGlobal, "delete") = LFun(Destructor_Wrapper_Function)
    /\ Field(ClassGlobal, "__gc") = Field(ClassGlobal, "delete")
    /\ Field(ClassGlobal, "__index").t = "table"

\* The method name is in the table of the class under its own name, and a
\* lookup of the name in a userdata of the class, which goes through the
\* __index entry of its metatable, gives the wrapper of the method.
Resolvable(name) ==
    /\ Field(ClassGlobal, name) = LFun(METHOD_WRAPPER(name))
    /\ \A h \in Handles :
          /\ ls.meta[h] = ClassGlobal.ref
          /\ Field(Field(LTab(ls.meta[h]), "__index"), name) = LFun(METHOD_WRAPPER(name))

\* C13: after the class is published, the table under the name of the
\* class in the globals holds classname, new bound to the constructor
\* wrapper, delete and __gc bound to the same destructor wrapper, an
\* __index entry, and every method registered before the publication under
\* its own name, resolvable through the __index entry of the metatable of
\* a handle.
C13_PublishedClassTable ==
    Published => FixedEntries /\ \A name \in methods : Resolvable(name)

\* The same for the methods whose name is not "classname", the key the
\* registration assigns the name of the class to.
PublishedClassTableOtherNames ==
    Published => FixedEntries /\ \A name \in methods \ {"classname"} : Resolvable(name)

\* What the table holds under "classname" when a method of that name was
\* registered: the name of the class.
ClassnameMethodLost ==
    Published /\ "classname" \in methods
        => Field(ClassGlobal, "classname") = LStr(Ascii(ClassName))

---------------------------------------------------------------------------
(* Registration of host objects. *)

\* The Lua value a key of a variable stands for.
KeySlot(key) == IF key.type = "string" THEN LStr(key.s) ELSE LNum(key.n)

\* The table the table t of the Lua state L holds under key: its
\* reference, 0 when it holds no table there.
TableAt(L, t, key) ==
    IF RawFind(L.tables[t], KeySlot(key), 1) = 0 THEN 0
    ELSE IF L.tables[t][RawFind(L.tables[t], KeySlot(key), 1)].v.t # "table" THEN 0
    ELSE L.tables[t][RawFind(L.tables[t], KeySlot(key), 1)].v.ref

\* The table the keys before the last lead to, from the table t on and
\* from key i on: 0 when one of them does not give a table.
RECURSIVE Innermost(_, _, _, _)
Innermost(L, keys, i, t) ==
    IF t = 0 \/ i >= Len(keys) THEN t
    ELSE Innermost(L, keys, i + 1, TableAt(L, t, keys[i]))

TypeNames ==
    {"nil", "boolean", "number", "string", "table", "function", "userdata", "thread"}

\* The registration ended by a TypeMismatchError that expected a table, and
\* made no userdata and stored nothing.
RegistrationRefused ==
    /\ call'.signal = "throw"
    /\ call'.raised = "TypeMismatchError"
    /\ \E found \in TypeNames \ {"table"} :
            call'.thrown = TypeMismatchWhat("table", found)
    /\ ls'.udata = ls.udata
    /\ ls'.meta = ls.meta
    /\ ls'.tables = ls.tables

\* The registration made one userdata, not owning and pointing to the
\* object given, and stored it under the last key of the table t; no other
\* entry of a table changed.
RegistrationStored(keys, t) ==
    /\ call'.signal = "return"
    /\ ls'.udata = Append(ls.udata, <<call'.ptr, 0>>)
    /\ ls'.tables = [ls.tables EXCEPT ![t] =
                        RawSet(@, KeySlot(keys[Len(keys)]), LUd(Len(ls.udata) + 1))]

RegistrationAsClaimed(keys) ==
    IF Innermost(ls, keys, 1, GlobalsRef) = 0 THEN RegistrationRefused
    ELSE RegistrationStored(keys, Innermost(ls, keys, 1, GlobalsRef))

Stored(h) ==
    \E t \in 1..Len(ls.tables) : \E i \in 1..Len(ls.tables[t]) : ls.tables[t][i].v = LUd(h)

\* A script can reach the userdata h: a table holds it, or the constructor
\* wrapper returned it to the script.
ScriptVisible(h) == Stored(h) \/ Wrapped(h).origin = "lua"

\* C15: after any constructions and registrations, also of the same object
\* more than once at the same or at different paths, every object a script
\* can reach has exactly one handle that points to it.
C15_OneHandlePerObject ==
    \A h1 \in Handles : \A h2 \in Handles :
        ScriptVisible(h1) /\ ScriptVisible(h2) /\ ls.udata[h1][1] = ls.udata[h2][1]
            => h1 = h2

\* The same for the objects made by the constructor wrapper, and for the
\* handles stored under one key: the later registration replaces the
\* earlier handle there.
OneHandlePerConstructedObject ==
    \A h1 \in Handles : \A h2 \in Handles :
        Wrapped(h1).origin = "lua" /\ ls.udata[h1][1] = ls.udata[h2][1] => h1 = h2

---------------------------------------------------------------------------
(* The destructor wrapper. *)

\* The call that just ended was a call of the destructor wrapper with the
\* userdata h on top of its stack.
ReclaimedBy(c, h) ==
    /\ c.shape \in {"delete", "__gc"}
    /\ c.args # <<>>
    /\ c.args[Len(c.args)] = LUd(h)

\* C16: the deleteMe flag of a handle that exists is changed only by the
\* destructor wrapper called on that handle, and only from true to false:
\* no step sets it from false to true, and method calls, constructions of
\* other objects and registrations leave it as it is.
C16_OwnsOnlyCleared ==
    [][\A h \in Handles :
          /\ h <= Len(ls'.udata)
          /\ ls'.udata[h][1] = ls.udata[h][1]
          /\ ls'.udata[h][2] # ls.udata[h][2]
                => /\ ls.udata[h][2] = 1
                   /\ ls'.udata[h][2] = 0
                   /\ ReclaimedBy(call', h)]_vars

\* A registration that ended after the flag of a constructed handle was
\* cleared by the destructor wrapper.
C16_Witness ==
    /\ call.shape = "register"
    /\ call.signal = "return"
    /\ \E h \in Handles :
          /\ Wrapped(h).origin = "lua"
          /\ notified[h] >= 1
          /\ ls.udata[h][2] = 0

\* C17: the destructor wrapper never raises and never fails, called by the
\* collector or through delete from a script with any arguments: a live
\* handle, a handle reclaimed before, a value that is no handle, or none.
C17_ReclamationNeverFails ==
    call.shape \in {"delete", "__gc"} => call.signal = "return"

\* The same for the calls with a handle on top of the stack, live or
\* reclaimed before.
ReclamationOfHandlesReturns ==
    \A h \in Handles : ReclaimedBy(call, h) => call.signal = "return" /\ call.nret = 0

\* The destructor wrapper found deleteMe set on the handle h: the flag was
\* cleared when the destructor of the object was entered, and the object
\* was destroyed.
ReclaimedOwned(h) ==
    /\ call'.called
    /\ call'.entry.udata[h][2] = 0
    /\ ls'.udata[h][2] = 0
    /\ objs' = [objs EXCEPT ![ls.udata[h][1]].deleted = @ + 1]

\* The destructor wrapper found deleteMe cleared: no object was destroyed,
\* the handles and the stack of the call are as they were.
ReclaimedNotOwned ==
    /\ ~call'.called
    /\ objs' = objs
    /\ ls'.udata = ls.udata
    /\ call'.stack = call'.args

\* C18: the destructor wrapper called on a handle with deleteMe = true
\* clears the flag before it destroys the object, so the flag is already
\* false at the moment the object is destroyed; on a handle with deleteMe =
\* false it destroys nothing and changes neither the handle nor the stack;
\* it always returns 0 values.
C18_FlagClearedBeforeDelete ==
    [][\A h \in Handles :
          ReclaimedBy(call', h)
              => /\ call'.nret = 0
                 /\ IF ls.udata[h][2] = 1 THEN ReclaimedOwned(h) ELSE ReclaimedNotOwned]_vars

\* The collector notified for a constructed handle whose flag was set: the
\* object was destroyed in the call that just ended.
C18_Witness ==
    /\ call.shape = "__gc"
    /\ call.called
    /\ \E h \in Handles :
          /\ ReclaimedBy(call, h)
          /\ Wrapped(h).deleted = 1
          /\ call.entry.udata[h][2] = 0

---------------------------------------------------------------------------
(* The order of decoding, call and encoding in the wrappers. *)

\* The frame the wrapper of the call that just ended was called on, and
\* the slots of it the wrapper does not put into the list of parameters:
\* the receiver of a method.
EntryFrame == [call.entry EXCEPT !.stack = call.args]
Receiver == IF call.shape = "method" THEN 1 ELSE 0

\* C19: when the wrapped function or method starts, every argument of the
\* frame has been decoded, the list it receives holds them in the order of
\* the stack (slot 1 first for a function, slot 2 first for a method,
\* whose slot 1 is the receiver and not in the list), and the slots of the
\* arguments have been removed from the stack: nothing is decoded after it
\* started and no result is on the stack before it returned.
C19_DecodedBeforeCall ==
    call.shape \in {"function", "method"} /\ call.called =>
        /\ call.entry.stack = <<>>
        /\ Len(call.params) = Len(call.args) - Receiver
        /\ \A i \in 1..Len(call.params) :
              /\ ToLuaValue(EntryFrame, i + Receiver).err = ""
              /\ call.params[i] = ToLuaValue(EntryFrame, i + Receiver).v

\* A method called with a table after the receiver.
C19_Witness ==
    /\ call.shape = "method"
    /\ call.called
    /\ Len(call.args) = 2
    /\ call.params = <<Tab(<<[k |-> Str(<<97>>), v |-> Num(1)]>>)>>
    /\ call.entry.stack = <<>>

\* The slot x holds the value v: the same type, and the same boolean,
\* number or string.
Holds(x, v) ==
    /\ x.t = v.type
    /\ v.type = "boolean" => x.b = v.b
    /\ v.type = "number" => x.n = v.n
    /\ v.type = "string" => x.s = v.s

\* C20: when a function or method wrapper ends without failure, the stack
\* of its frame holds exactly the values the wrapped code returned, in the
\* order of the list, and the count it returns to Lua is the length of the
\* list; a constructor wrapper that ends without failure leaves exactly one
\* value, the new handle with deleteMe = true and the table of the class
\* as its metatable, and returns 1.
C20_ResultsInOrder ==
    /\ call.shape \in {"function", "method"} /\ call.signal = "return" =>
          /\ call.nret = Len(call.ret)
          /\ Len(call.stack) = Len(call.ret)
          /\ \A i \in 1..Len(call.ret) : Holds(call.stack[i], call.ret[i])
    /\ call.shape = "constructor" /\ call.signal = "return" =>
          /\ call.nret = 1
          /\ call.stack = <<LUd(Len(ls.udata))>>
          /\ Len(ls.udata) = Len(call.entry.udata) + 1
          /\ ls.udata[Len(ls.udata)][2] = 1
          /\ ClassGlobal.t = "table"
          /\ ls.meta[Len(ls.udata)] = ClassGlobal.ref

\* A function that returned a number and a string.
C20_Witness ==
    /\ call.shape = "function"
    /\ call.signal = "return"
    /\ call.ret = <<Num(0), Str(<<97>>)>>
    /\ call.stack = <<LNum(0), LStr(<<97>>)>>
    /\ call.nret = 2

---------------------------------------------------------------------------
(* The order of the kinds and of tables. *)

\* The order of the kinds: the order of the names typeName gives them.
KindRank(v) ==
    CASE v.type = "userdata" -> 0
      [] v.type = "boolean" -> 1
      [] v.type = "nil" -> 2
      [] v.type = "number" -> 3
      [] v.type = "string" -> 4
      [] v.type = "table" -> 5

\* The first position from i on where two maps of the same size differ,
\* 0 when they do not.
RECURSIVE FirstDifference(_, _, _)
FirstDifference(l, r, i) ==
    IF i > Len(l) THEN 0
    ELSE IF l[i] # r[i] THEN i
    ELSE FirstDifference(l, r, i + 1)

\* The comparison of lhs and rhs gave what the comparison of x and y gives.
DecidedBy(x, y) ==
    /\ cmp.lt <=> LessThan(x, y)
    /\ cmp.gt <=> GreaterThan(x, y)

\* Two tables of the same size: decided by the keys at the position at, or
\* by the values there when the keys are the same; neither less nor
\* greater when the tables do not differ.
DecidedAt(at) ==
    IF at = 0 THEN ~cmp.lt /\ ~cmp.gt
    ELSE IF lhs.m[at].k # rhs.m[at].k THEN DecidedBy(lhs.m[at].k, rhs.m[at].k)
    ELSE DecidedBy(lhs.m[at].v, rhs.m[at].v)

OrderedAsClaimed ==
    IF lhs.type # rhs.type
    THEN /\ cmp.lt <=> KindRank(lhs) < KindRank(rhs)
         /\ cmp.gt <=> KindRank(lhs) > KindRank(rhs)
    ELSE lhs.type = "table" =>
            IF Len(lhs.m) # Len(rhs.m)
            THEN /\ cmp.lt <=> Len(lhs.m) < Len(rhs.m)
                 /\ cmp.gt <=> Len(lhs.m) > Len(rhs.m)
            ELSE DecidedAt(FirstDifference(lhs.m, rhs.m, 1))

\* C21: LuaValues of different kinds are ordered by a fixed total order of
\* the kinds, whatever they hold; two tables are ordered by the number of
\* their entries first and, when it is the same, by their entries in
\* ascending key order, decided at the first position where the keys
\* differ or, the keys being the same, the values differ, by the same order
\* applied to them; two tables with the same keys and values are neither
\* less nor greater.
C21_KindsThenEntries == cmp.done => OrderedAsClaimed

\* The value v holds a userdata value, itself or in a table.
RECURSIVE HoldsPayload(_)
HoldsPayload(v) ==
    \/ v.type = "userdata"
    \/ /\ v.type = "table"
       /\ \E i \in 1..Len(v.m) : HoldsPayload(v.m[i].k) \/ HoldsPayload(v.m[i].v)

\* The same for the tables that hold no userdata value.
KindsThenEntriesWithoutPayloads ==
    (cmp.done /\ ~(lhs.type = "table" /\ HoldsPayload(lhs))
              /\ ~(rhs.type = "table" /\ HoldsPayload(rhs))) => OrderedAsClaimed

\* What the code does for two tables whose keys are different userdata
\* values: it goes on to the values.
PayloadKeysSkipped ==
    (cmp.done /\ lhs.type = "table" /\ rhs.type = "table"
        /\ Len(lhs.m) = 1 /\ Len(rhs.m) = 1
        /\ lhs.m[1].k.type = "userdata" /\ rhs.m[1].k.type = "userdata")
        => DecidedBy(lhs.m[1].v, rhs.m[1].v)

---------------------------------------------------------------------------
(* Decoding a table of the Lua state, at any index. *)

\* The entries of the Lua table in the slot toLuaValue was called on, and
\* the entries of the table it returned.
TraversedPairs == vm.tables[Slot(vm, idx).ref]
DecodedEntries == dec.r.v.m

\* A table was decoded by the call that just ended.
TableDecoded == dec.phase = "decoded" /\ idx # 0 /\ Slot(vm, idx).t = "table"

\* What toLuaValue gives for the Lua value x of the state vm.
ValueOf(x) == toLuaValue(lua_push(vm, x), -1).v

\* The Lua table is a sequence: its keys are the numbers 1 to n.
IsSequence(t) == {t[i].k : i \in 1..Len(t)} = {LNum(i) : i \in 1..Len(t)}

\* A sequence of n elements is decoded to n entries with the keys
\* Number(1) to Number(n) that hold the elements in order.
SequenceInOrder ==
    IsSequence(TraversedPairs) =>
        /\ Len(DecodedEntries) = Len(TraversedPairs)
        /\ \A i \in 1..Len(TraversedPairs) :
              /\ DecodedEntries[i].k = Num(i)
              /\ DecodedEntries[i].v
                    = ValueOf(TraversedPairs[RawFind(TraversedPairs, LNum(i), 1)].v)

\* C22: decoding a Lua table whose keys and values are all of supported
\* kinds gives a table with exactly one entry for every pair of the Lua
\* table: as many entries as the Lua table has pairs, none lost or merged
\* with another, also when several distinct keys of the Lua table are
\* tables with equal contents; a sequence of n elements gives n entries
\* with the keys Number(1) to Number(n) that hold the elements in order.
C22_OneEntryPerPair ==
    TableDecoded =>
        /\ dec.r.err = ""
        /\ dec.r.v.type = "table"
        /\ Len(DecodedEntries) = Len(TraversedPairs)
        /\ SequenceInOrder

\* No two keys of the Lua table are decoded to the same LuaValue.
KeysDecodeApart ==
    \A i, j \in 1..Len(TraversedPairs) :
        i # j => ValueOf(TraversedPairs[i].k) # ValueOf(TraversedPairs[j].k)

\* The same for the Lua tables whose keys are decoded to different
\* LuaValues, and what is left of the others: fewer entries than pairs.
OneEntryPerPairOfKeysApart ==
    TableDecoded =>
        /\ dec.r.err = ""
        /\ dec.r.v.type = "table"
        /\ SequenceInOrder
        /\ IF KeysDecodeApart THEN Len(DecodedEntries) = Len(TraversedPairs)
           ELSE Len(DecodedEntries) < Len(TraversedPairs)

\* C24: toLuaValue leaves the stack as it found it: for every index,
\* positive or negative, of a slot of a supported kind, tables nested in
\* tables included, the height and the slots of the stack after the call
\* are those before it, and toLuaValue (-k) returns what
\* toLuaValue (top - k + 1) returns.
C24_StackAsFound ==
    [][(dec.phase = "pushed" /\ dec'.phase = "decoded" /\ idx' # 0)
         => /\ dec'.r.err = ""
            /\ vm' = vm
            /\ twin'.err = ""
            /\ twin'.L = vm
            /\ twin'.v = dec'.r.v]_vars

\* A table whose key is a table that holds an entry was decoded with a
\* negative index, below another slot and above one.
C24_Witness ==
    /\ TableDecoded
    /\ idx = -2
    /\ Len(vm.stack) = 3
    /\ \E i \in 1..Len(TraversedPairs) :
          /\ TraversedPairs[i].k.t = "table"
          /\ vm.tables[TraversedPairs[i].k.ref] # <<>>
    /\ Len(DecodedEntries) >= 1

-----------------------------------------------------------------------------
\* The handle a method was called through, and whether the constructor
\* wrapper made the object it wraps.
CalledThrough(c, h) ==
    /\ c.shape = "method"
    /\ c.args # <<>>
    /\ c.args[1] = LUd(h)

MadeByConstructor(h) == Wrapped(h).origin = "lua"

\* C23: a method called through a handle made by the constructor wrapper
\* never reaches an object the destructor wrapper has destroyed: after a
\* delete of the handle (or a notification of the collector) a method
\* call through it does not use the destroyed object.
C23_NoMethodOnDestroyedObject ==
    \A h \in Handles :
        CalledThrough(call, h) /\ MadeByConstructor(h) => ~call.dangling

\* What holds: a method reaches a destroyed object only through a handle
\* the destructor wrapper was called on before, and a method called
\* through a handle it was never called on reaches the living object.
MethodOnDestroyedOnlyAfterReclamation ==
    \A h \in Handles :
        CalledThrough(call, h) /\ MadeByConstructor(h)
            => /\ call.dangling <=> Wrapped(h).deleted > 0
               /\ Wrapped(h).deleted > 0 => notified[h] >= 1
               /\ notified[h] = 0 => call.called /\ call.signal = "return"

\* The method wrapper neither reads nor changes the flag or the pointer
\* of the handle: they are after the call what they were before.
MethodKeepsHandle ==
    [][\A h \in Handles : CalledThrough(call', h) => ls'.udata[h] = ls.udata[h]]_vars

=============================================================================
